---- MODULE Spec2Model ----
(***************************************************************************)
(* The persisted task queue (TaskQueue), the pipeline builder (Coordinator)*)
(* and the driving loop (WorkflowEngine) of OpenClawAgents, as a state     *)
(* machine.  The store is the content of tasks.json (a list of task        *)
(* dictionaries, in creation order) and of the completed/ directory (one   *)
(* file per completed task id).                                            *)
(***************************************************************************)
EXTENDS Naturals, Sequences, FiniteSets, TLC

VARIABLES
    tasks,        \* tasks.json: the list TaskQueue._load_all_tasks returns
    completed,    \* completed/task_<id>.json: archived task, by id
    updates,      \* number of direct update_task_status calls made so far
    \* WorkflowEngine.run_content_pipeline and process_pending_tasks:
    pc,              \* where the run is
    pipeline,        \* the dictionary execute_content_pipeline returned
    iteration,       \* iteration
    agent_idx,       \* position in self.agents of the agent being served
    pending_tasks,   \* the rest of pending_tasks for that agent
    task,            \* the task handed to the Worker (payload wired)
    tasks_processed, \* tasks_processed
    results,         \* results of the current pass
    all_results,     \* all_results
    final_results,   \* final_results, once collected
    polled,          \* history: ids get_pending_tasks returned in this pass
    outcomes,        \* history: the Worker calls that returned or raised
    \* Direct calls observed with their clock readings and return values:
    now,          \* the reading datetime.now() gives next
    stamps,       \* created_at, updated_at, assigned_at, completed_at of tasks[i]
    last,         \* history: the last call made, its arguments and its outcome
    promised,     \* history: id -> result of the Completed write that was the
                  \* last update applied to the task of that id
    reads,        \* history: the number of get_pending_tasks calls made
    \* Several run_content_pipeline coroutines on one event loop:
    runs,         \* run -> its local variables and where it stands
    running,      \* the run the event loop is executing, 0 when all are suspended
    handed,       \* history: the tasks handed to a Worker and by which run
    \* Callers of the queue in different processes:
    callers,      \* caller -> the call it is in and the list it has loaded
    issued        \* history: ids drawn and returned by add_task, and the
                  \* status last written to each task id

storeVars == <<tasks, completed>>
runVars == <<pc, pipeline, iteration, agent_idx, pending_tasks, task,
             tasks_processed, results, all_results, final_results,
             polled, outcomes>>
sharedVars == <<runs, running, handed>>
callerVars == <<callers, issued>>
auxVars == <<now, stamps, last, promised, reads, sharedVars, callerVars>>
vars == <<tasks, completed, updates, pc, pipeline, iteration, agent_idx,
          pending_tasks, task, tasks_processed, results, all_results,
          final_results, polled, outcomes, now, stamps, last, promised,
          reads, runs, running, handed, callers, issued>>

----------------------------------------------------------------------------
(* class TaskStatus(Enum) *)
PENDING == "pending"
ASSIGNED == "assigned"
IN_PROGRESS == "in_progress"
COMPLETED == "completed"
FAILED == "failed"
BLOCKED == "blocked"
TaskStatus == {PENDING, ASSIGNED, IN_PROGRESS, COMPLETED, FAILED, BLOCKED}

(* class TaskPriority(Enum): the values the sort key reads *)
LOW == 3
MEDIUM == 2
HIGH == 1
CRITICAL == 0
TaskPriority == {LOW, MEDIUM, HIGH, CRITICAL}

(* Python's None, for the Optional[...] fields. *)
None == [None |-> TRUE]

(* Python dictionaries are functions from keys to values; {} is EmptyDict. *)
EmptyDict == [k \in {} |-> ""]

(* Truthiness of an Optional[Dict]: None and {} are both falsy. *)
Truthy(d) == d # None /\ DOMAIN d # {}

----------------------------------------------------------------------------
(* Outcome of the file operations of one store call.  read: json.load of  *)
(* tasks.json succeeds; write: "ok", "fail_open" (open(..., "w") raises,   *)
(* the file is untouched) or "fail_dump" (the file was truncated and is    *)
(* left unparseable, so it loads as []); archive: the archive write works. *)
IoOk == [read |-> TRUE, write |-> "ok", archive |-> TRUE]
IoOutcomes == [read : BOOLEAN, write : {"ok", "fail_open", "fail_dump"}, archive : BOOLEAN]

(* @dataclass Task, as add_task constructs it.  dependencies is the set of *)
(* the ids in the list; the timestamp fields (created_at, updated_at,      *)
(* assigned_at, completed_at) are not part of this record.                 *)
Task(id, title, assigned_agent, priority, dependencies, payload) ==
    [ id             |-> id,
      title          |-> title,
      assigned_agent |-> assigned_agent,
      status         |-> PENDING,
      priority       |-> priority,
      dependencies   |-> dependencies,
      payload        |-> payload,
      result         |-> None ]

(* TaskQueue._load_all_tasks on a tasks.json holding file: the parsed     *)
(* list, or [] when it cannot be read                                      *)
loaded(file, io) == IF io.read THEN file ELSE <<>>
load_all_tasks(io) == loaded(tasks, io)

(* TaskQueue._persist_tasks: the content of a tasks.json that held file,  *)
(* after writing ts                                                        *)
persisted(file, ts, io) ==
    CASE io.write = "ok"        -> ts
      [] io.write = "fail_open" -> file
      [] io.write = "fail_dump" -> <<>>
persist_tasks(ts, io) == persisted(tasks, ts, io)

(* next((t for t in all_tasks if t.id == task_id), None): index of the    *)
(* first task with that id, 0 when there is none                           *)
FirstIndex(all_tasks, task_id) ==
    IF \E i \in 1..Len(all_tasks) : all_tasks[i].id = task_id
    THEN CHOOSE i \in 1..Len(all_tasks) :
            /\ all_tasks[i].id = task_id
            /\ \A j \in 1..(i-1) : all_tasks[j].id # task_id
    ELSE 0

(* TaskQueue.get_task, on a tasks.json holding file *)
task_in(file, task_id) ==
    LET all_tasks == loaded(file, IoOk)
        i == FirstIndex(all_tasks, task_id)
    IN  IF i = 0 THEN None ELSE all_tasks[i]
get_task(task_id) == task_in(tasks, task_id)

(* Variant of _dependencies_satisfied that lets a dependency missing from  *)
(* the store pass ("if dep_task and dep_task.status != COMPLETED").        *)
dependencies_satisfied_missing_ok(t, all_tasks) ==
    \A dep_id \in t.dependencies :
        LET i == FirstIndex(all_tasks, dep_id)
        IN  i = 0 \/ all_tasks[i].status = COMPLETED

(* Variant of _dependencies_satisfied that accepts a dependency in either *)
(* terminal status ("status not in (COMPLETED, FAILED)").                  *)
dependencies_satisfied_terminal_ok(t, all_tasks) ==
    \A dep_id \in t.dependencies :
        LET i == FirstIndex(all_tasks, dep_id)
        IN  i # 0 /\ all_tasks[i].status \in {COMPLETED, FAILED}

(* TaskQueue._dependencies_satisfied *)
dependencies_satisfied(t, all_tasks) ==
    \A dep_id \in t.dependencies :
        LET i == FirstIndex(all_tasks, dep_id)
        IN  i # 0 /\ all_tasks[i].status = COMPLETED

(* Variant of the insertion for a descending sort (reverse=True). *)
InsertByPriority_descending(s, t) ==
    LET keep == {i \in 0..Len(s) : \A j \in 1..i : s[j].priority >= t.priority}
        k == CHOOSE i \in keep : \A j \in keep : j <= i
    IN  SubSeq(s, 1, k) \o <<t>> \o SubSeq(s, k + 1, Len(s))

(* Variant of the insertion for a sort that is not stable: the task goes  *)
(* before the tasks already placed that have the same key.                 *)
InsertByPriority_before_equal(s, t) ==
    LET keep == {i \in 0..Len(s) : \A j \in 1..i : s[j].priority < t.priority}
        k == CHOOSE i \in keep : \A j \in keep : j <= i
    IN  SubSeq(s, 1, k) \o <<t>> \o SubSeq(s, k + 1, Len(s))

(* sorted(agent_tasks, key=lambda t: t.priority.value): Python's sort is  *)
(* stable; computed here by insertion, each task going after every task    *)
(* already placed whose key is not greater.                                *)
InsertByPriority(s, t) ==
    LET keep == {i \in 0..Len(s) : \A j \in 1..i : s[j].priority <= t.priority}
        k == CHOOSE i \in keep : \A j \in keep : j <= i
    IN  SubSeq(s, 1, k) \o <<t>> \o SubSeq(s, k + 1, Len(s))

RECURSIVE sorted_by_priority(_)
sorted_by_priority(s) ==
    IF s = <<>> THEN <<>>
    ELSE InsertByPriority(sorted_by_priority(SubSeq(s, 1, Len(s) - 1)), s[Len(s)])

(* Variant of get_pending_tasks that returns the filtered list unsorted. *)
get_pending_tasks_unsorted(agent_id) ==
    LET all_tasks == load_all_tasks(IoOk)
        Ready(t) == /\ t.assigned_agent = agent_id
                    /\ t.status = PENDING
                    /\ dependencies_satisfied(t, all_tasks)
    IN  SelectSeq(all_tasks, Ready)

(* Variant of get_pending_tasks without the dependency test. *)
get_pending_tasks_ungated(agent_id) ==
    LET all_tasks == load_all_tasks(IoOk)
        Ready(t) == /\ t.assigned_agent = agent_id
                    /\ t.status = PENDING
    IN  sorted_by_priority(SelectSeq(all_tasks, Ready))

(* Variant of get_pending_tasks that lists Failed tasks again. *)
get_pending_tasks_retrying(agent_id) ==
    LET all_tasks == load_all_tasks(IoOk)
        Ready(t) == /\ t.assigned_agent = agent_id
                    /\ t.status \in {PENDING, FAILED}
                    /\ dependencies_satisfied(t, all_tasks)
    IN  sorted_by_priority(SelectSeq(all_tasks, Ready))

(* TaskQueue.get_pending_tasks *)
get_pending_tasks(agent_id) ==
    LET all_tasks == load_all_tasks(IoOk)
        Ready(t) == /\ t.assigned_agent = agent_id
                    /\ t.status = PENDING
                    /\ dependencies_satisfied(t, all_tasks)
    IN  sorted_by_priority(SelectSeq(all_tasks, Ready))

(* TaskQueue._archive_task: the completed/ directory after archiving t *)
(* Variant of the archive write that keeps an entry already written. *)
archive_task_first_only(t, io) ==
    IF io.archive /\ t.id \notin DOMAIN completed
    THEN [x \in DOMAIN completed \cup {t.id} |->
            IF x = t.id THEN t ELSE completed[x]]
    ELSE completed

archive_task(t, io) ==
    IF io.archive
    THEN [x \in DOMAIN completed \cup {t.id} |->
            IF x = t.id THEN t ELSE completed[x]]
    ELSE completed

(* Variant of the loop body that sets the status and forgets the result. *)
UpdatedTask_drops_result(t, status, result) ==
    [t EXCEPT !.status = status]

(* Variant of the loop body that treats a write of Completed to a task    *)
(* already Completed as a reset of its result.                             *)
UpdatedTask_clear_on_repeat(t, status, result) ==
    IF status = COMPLETED
    THEN [t EXCEPT !.status = status,
                   !.result = IF t.status = COMPLETED THEN None ELSE result]
    ELSE [t EXCEPT !.status = status]

(* Variant of the loop body that does not record a failure. *)
UpdatedTask_skips_failed(t, status, result) ==
    IF status = COMPLETED
    THEN [t EXCEPT !.status = status, !.result = result]
    ELSE IF status = FAILED THEN t ELSE [t EXCEPT !.status = status]

(* Variant of the loop body that records a start of work as Assigned. *)
UpdatedTask_assigns(t, status, result) ==
    IF status = COMPLETED
    THEN [t EXCEPT !.status = status, !.result = result]
    ELSE [t EXCEPT !.status = IF status = IN_PROGRESS THEN ASSIGNED ELSE status]

(* The task object update_task_status leaves in the list for the matched  *)
(* task t.                                                                 *)
UpdatedTask(t, status, result) ==
    IF status = COMPLETED
    THEN [t EXCEPT !.status = status, !.result = result]
    ELSE [t EXCEPT !.status = status]

(* TaskQueue.add_task(title, assigned_agent, payload, priority,           *)
(* dependencies); task_id is the value str(uuid.uuid4())[:8] draws.        *)
(* added: the content of tasks.json after the call, given it before.       *)
added(file, task_id, title, assigned_agent, payload, priority, dependencies, io) ==
    LET new == Task(task_id, title, assigned_agent, priority, dependencies, payload)
    IN  persisted(file, Append(loaded(file, io), new), io)

add_task(task_id, title, assigned_agent, payload, priority, dependencies, io) ==
    /\ tasks' = added(tasks, task_id, title, assigned_agent, payload, priority,
                      dependencies, io)
    /\ UNCHANGED completed

(* Variant of update_task_status that creates a task for an unknown id. *)
update_task_status_upsert(task_id, status, result, io) ==
    LET all_tasks == load_all_tasks(io)
        i == FirstIndex(all_tasks, task_id)
    IN  IF i = 0
        THEN /\ tasks' = persist_tasks(
                    Append(all_tasks,
                           UpdatedTask(Task(task_id, "", "", MEDIUM, {}, EmptyDict),
                                       status, result)), io)
             /\ UNCHANGED completed
        ELSE LET t == UpdatedTask(all_tasks[i], status, result)
             IN  /\ tasks' = persist_tasks([all_tasks EXCEPT ![i] = t], io)
                 /\ completed' = IF status = COMPLETED
                                 THEN archive_task(t, io)
                                 ELSE completed

(* TaskQueue.update_task_status(task_id, status, result) *)
update_task_status(task_id, status, result, io) ==
    LET all_tasks == load_all_tasks(io)
        i == FirstIndex(all_tasks, task_id)
    IN  IF i = 0
        THEN /\ tasks' = persist_tasks(all_tasks, io)
             /\ UNCHANGED completed
        ELSE LET t == UpdatedTask(all_tasks[i], status, result)
             IN  /\ tasks' = persist_tasks([all_tasks EXCEPT ![i] = t], io)
                 /\ completed' = IF status = COMPLETED
                                 THEN archive_task(t, io)
                                 ELSE completed

(* Variant of get_task_result without the archive fallback. *)
task_result_in_live_only(file, archive, task_id) ==
    LET t == task_in(file, task_id)
    IN  IF t # None /\ Truthy(t.result) THEN t.result ELSE None

(* TaskQueue.get_task_result, on a tasks.json holding file and a          *)
(* completed/ directory holding archive                                    *)
task_result_in(file, archive, task_id) ==
    LET t == task_in(file, task_id)
    IN  IF t # None /\ Truthy(t.result) THEN t.result
        ELSE IF task_id \in DOMAIN archive
             THEN archive[task_id].result
             ELSE None
get_task_result(task_id) == task_result_in(tasks, completed, task_id)

----------------------------------------------------------------------------
(* Direct use of the queue, as the tests of TaskQueue do.  The draws of    *)
(* uuid4 are taken to be distinct here: the k-th task created gets the     *)
(* k-th id of TaskIdPool.                                                  *)

MaxTasks == 2
MaxPriorityTasks == 3
MaxUpdates == 2

TaskIdPool == <<"t1", "t2", "t3", "t4", "t5", "t6", "t7", "t8", "t9", "t10",
                "t11", "t12", "t13", "t14", "t15", "t16">>
NextId(file) == TaskIdPool[Len(file) + 1]
FreshId == NextId(tasks)
TaskIds == {TaskIdPool[i] : i \in 1..MaxTasks}

QueueAgents == {"agent1", "agent2"}
R1 == [status |-> "completed", data |-> "test"]
ResultArgs == {None, R1}
DepChoices == SUBSET {TaskIdPool[1], TaskIdPool[2]}

(* add_task(title, agent, payload, dependencies=deps): default priority *)
(* The run_content_pipeline coroutines that may be live at once (one per  *)
(* POST /api/pipeline/run being served)                                    *)
Runs == {1, 2}

(* The local variables of a run that has not started *)
RunLocals ==
    [pc |-> "idle", pipeline |-> None, iteration |-> 0, agent_idx |-> 0,
     pending_tasks |-> <<>>, task |-> None, tasks_processed |-> 0]

(* The processes that hold a TaskQueue over the same directory (the API   *)
(* server and the command-line run, or two servers)                        *)
Callers == {"c1", "c2"}

(* A caller that is in no call *)
CallerIdle ==
    [pc |-> "idle", op |-> "", task_id |-> "", status |-> "", all_tasks |-> <<>>]

AddTaskCall ==
    /\ Len(tasks) < MaxTasks
    /\ \E agent \in QueueAgents, deps \in DepChoices :
          add_task(FreshId, "Test Task", agent, EmptyDict, MEDIUM, deps, IoOk)
    /\ UNCHANGED updates
    /\ UNCHANGED runVars
    /\ UNCHANGED auxVars

(* update_task_status(task_id, status) and                                *)
(* update_task_status(task_id, TaskStatus.COMPLETED, result)               *)
UpdateStatusCall ==
    /\ updates < MaxUpdates
    /\ \E task_id \in TaskIds, status \in TaskStatus :
         \E result \in (IF status = COMPLETED THEN ResultArgs ELSE {None}) :
            update_task_status(task_id, status, result, IoOk)
    /\ updates' = updates + 1
    /\ UNCHANGED runVars
    /\ UNCHANGED auxVars

Init ==
    /\ tasks = <<>>
    /\ completed = [x \in {} |-> None]
    /\ updates = 0
    /\ pc = "idle"
    /\ pipeline = None
    /\ iteration = 0
    /\ agent_idx = 0
    /\ pending_tasks = <<>>
    /\ task = None
    /\ tasks_processed = 0
    /\ results = EmptyDict
    /\ all_results = EmptyDict
    /\ final_results = None
    /\ polled = {}
    /\ outcomes = <<>>
    /\ now = 1
    /\ stamps = <<>>
    /\ last = [op |-> "none"]
    /\ promised = [x \in {} |-> None]
    /\ reads = 0
    /\ runs = [r \in Runs |-> RunLocals]
    /\ running = 0
    /\ handed = <<>>
    /\ callers = [c \in Callers |-> CallerIdle]
    /\ issued = [drawn |-> 0, created |-> {}, written |-> [x \in {} |-> ""]]

Next == AddTaskCall \/ UpdateStatusCall

Spec == Init /\ [][Next]_vars

(* add_task(title, "agent1", {}, priority=p): default dependencies, as    *)
(* test_task_priority_ordering does                                        *)
AddPriorityTaskCall ==
    /\ Len(tasks) < MaxPriorityTasks
    /\ \E priority \in TaskPriority :
          add_task(FreshId, "Test Task", "agent1", EmptyDict, priority, {}, IoOk)
    /\ UNCHANGED updates
    /\ UNCHANGED runVars
    /\ UNCHANGED auxVars

(* update_task_status(task_id, status): result omitted *)
UpdateStatusOnlyCall ==
    /\ updates < MaxUpdates
    /\ \E i \in 1..MaxPriorityTasks, status \in TaskStatus :
          update_task_status(TaskIdPool[i], status, None, IoOk)
    /\ updates' = updates + 1
    /\ UNCHANGED runVars
    /\ UNCHANGED auxVars

NextPriority == AddPriorityTaskCall \/ UpdateStatusOnlyCall

SpecPriority == Init /\ [][NextPriority]_vars
----------------------------------------------------------------------------
(* Coordinator.execute_content_pipeline and the WorkflowEngine.            *)

(* EnvironmentConfig.MAX_ITERATIONS *)
MAX_ITERATIONS == 20

COORDINATOR == "agent:coordinator:main"

(* self.agents, in the order _initialize_agents fills it: the agents of   *)
(* AGENT_CONFIGURATIONS with the coordinator skipped, then the coordinator *)
EngineAgents == << "agent:researcher:main", "agent:analyst:main",
                   "agent:writer:main", "agent:seo:main",
                   "agent:quality:main", COORDINATOR >>

(* d.get(k, default) and d[k] = v on a dictionary *)
Get(d, k, default) == IF k \in DOMAIN d THEN d[k] ELSE default
Put(d, k, v) == [x \in DOMAIN d \cup {k} |-> IF x = k THEN v ELSE d[x]]

(* One add_task call of execute_content_pipeline and the entry it leaves  *)
(* in the returned "tasks" dictionary: acc.file is tasks.json and acc.ids   *)
(* the entries so far.                                                     *)
add_stage(acc, key, title, assigned_agent, payload, priority, dependencies) ==
    [ file |-> added(acc.file, NextId(acc.file), title, assigned_agent, payload,
                     priority, dependencies, IoOk),
      ids  |-> Put(acc.ids, key, NextId(acc.file)) ]

(* Step 1: Research task *)
research_stage(acc, topic) ==
    add_stage(acc, "research", "Research", "agent:researcher:main",
              [topic |-> topic, max_sources |-> "5", id |-> ""],
              HIGH, {})

(* Step 2: Analysis task (depends on research) *)
analysis_stage(acc) ==
    add_stage(acc, "analysis", "Analyze", "agent:analyst:main",
              [research_task_id |-> acc.ids["research"],
               research_data |-> EmptyDict, id |-> ""],
              HIGH, {acc.ids["research"]})

(* Step 3: Writing task (depends on analysis) *)
writing_stage(acc) ==
    add_stage(acc, "writing", "Write", "agent:writer:main",
              [analysis_task_id |-> acc.ids["analysis"], outline |-> EmptyDict,
               style_guide |-> "professional", research_data |-> EmptyDict,
               id |-> ""],
              MEDIUM, {acc.ids["analysis"]})

(* Variant of step 4 whose SEO task depends on the analysis task. *)
seo_stage_wrong_dep(acc, topic) ==
    add_stage(acc, "seo", "SEO Optimize", "agent:seo:main",
              [writing_task_id |-> acc.ids["writing"], content |-> "",
               topic |-> topic, id |-> ""],
              MEDIUM, {acc.ids["analysis"]})

(* Step 4: SEO optimization (depends on writing) *)
seo_stage(acc, topic) ==
    add_stage(acc, "seo", "SEO Optimize", "agent:seo:main",
              [writing_task_id |-> acc.ids["writing"], content |-> "",
               topic |-> topic, id |-> ""],
              MEDIUM, {acc.ids["writing"]})

(* Variant of step 5 that queues the quality check at Medium priority. *)
quality_stage_medium(acc) ==
    add_stage(acc, "quality", "Quality Check", "agent:quality:main",
              [seo_task_id |-> acc.ids["seo"], content |-> "",
               seo_data |-> EmptyDict, id |-> ""],
              MEDIUM, {acc.ids["seo"]})

(* Step 5: Quality check (depends on SEO) *)
quality_stage(acc) ==
    add_stage(acc, "quality", "Quality Check", "agent:quality:main",
              [seo_task_id |-> acc.ids["seo"], content |-> "",
               seo_data |-> EmptyDict, id |-> ""],
              HIGH, {acc.ids["seo"]})

(* The returned dictionary *)
pipeline_of(acc, topic) ==
    [ file |-> acc.file,
      pipeline |-> [pipeline_id |-> "p1", topic |-> topic, tasks |-> acc.ids] ]

(* Coordinator.execute_content_pipeline(topic) on a tasks.json holding    *)
(* file: the file afterwards and the dictionary returned.  The five        *)
(* add_task calls follow each other with no suspension in between.         *)
execute_content_pipeline(file, topic) ==
    pipeline_of(
        quality_stage(
            seo_stage(
                writing_stage(
                    analysis_stage(
                        research_stage([file |-> file, ids |-> EmptyDict], topic))),
                topic)),
        topic)

(* pipeline["tasks"].values() *)
PipelineIds(p) == {p.tasks[k] : k \in DOMAIN p.tasks}

(* "key in payload" with a truthy (non-empty string) value *)
HasRef(payload, k) == k \in DOMAIN payload /\ payload[k] # ""

(* "Load research data for analyst" *)
load_research(payload, file, archive) ==
    LET research_result ==
            IF HasRef(payload, "research_task_id")
            THEN task_result_in(file, archive, payload["research_task_id"]) ELSE None
    IN  IF Truthy(research_result)
        THEN Put(payload, "research_data", research_result) ELSE payload

(* "Load analysis data (outline + research) for writer" *)
load_analysis(payload, file, archive) ==
    LET analysis_result ==
            IF HasRef(payload, "analysis_task_id")
            THEN task_result_in(file, archive, payload["analysis_task_id"]) ELSE None
    IN  IF Truthy(analysis_result)
        THEN load_research(Put(payload, "outline",
                               Get(analysis_result, "outline", EmptyDict)),
                           file, archive)
        ELSE payload

(* Variant of the SEO wiring that copies the topic and leaves content. *)
load_writing_topic_only(payload, file, archive) ==
    LET writing_result ==
            IF HasRef(payload, "writing_task_id")
            THEN task_result_in(file, archive, payload["writing_task_id"]) ELSE None
    IN  IF Truthy(writing_result)
        THEN Put(payload, "topic", Get(writing_result, "topic", ""))
        ELSE payload

(* "Load writing data for SEO" *)
load_writing(payload, file, archive) ==
    LET writing_result ==
            IF HasRef(payload, "writing_task_id")
            THEN task_result_in(file, archive, payload["writing_task_id"]) ELSE None
    IN  IF Truthy(writing_result)
        THEN Put(Put(payload, "content", Get(writing_result, "content", "")),
                 "topic", Get(writing_result, "topic", ""))
        ELSE payload

(* "Load SEO data for quality" *)
load_seo(payload, file, archive) ==
    LET seo_result ==
            IF HasRef(payload, "seo_task_id")
            THEN task_result_in(file, archive, payload["seo_task_id"]) ELSE None
    IN  IF Truthy(seo_result)
        THEN Put(Put(payload, "content", Get(seo_result, "optimized_content", "")),
                 "seo_data", seo_result)
        ELSE payload

(* WorkflowEngine._load_dependent_task_data, preceded by                  *)
(* task.payload["id"] = task.id: the payload handed to the Worker, read    *)
(* from a tasks.json holding file and a completed/ holding archive.        *)
load_dependent_task_data(t, file, archive) ==
    load_seo(
        load_writing(
            load_analysis(
                load_research(Put(t.payload, "id", t.id), file, archive),
                file, archive),
            file, archive),
        file, archive)

(* Variant of get_pipeline_status that tests in_progress before failed. *)
overall_status_in_progress_first(file) ==
    LET task_statuses == {file[i].status : i \in 1..Len(file)}
    IN  IF \A st \in task_statuses : st = COMPLETED THEN "completed"
        ELSE IF IN_PROGRESS \in task_statuses THEN "in_progress"
        ELSE IF FAILED \in task_statuses THEN "failed"
        ELSE "pending"

(* Variant of get_pipeline_status whose failure test reads "error". *)
overall_status_typo(file) ==
    LET task_statuses == {file[i].status : i \in 1..Len(file)}
    IN  IF \A st \in task_statuses : st = COMPLETED THEN "completed"
        ELSE IF "error" \in task_statuses THEN "failed"
        ELSE IF IN_PROGRESS \in task_statuses THEN "in_progress"
        ELSE "pending"

(* WorkflowEngine.get_pipeline_status: overall_status, over every task of *)
(* a tasks.json holding file                                               *)
overall_status(file) ==
    LET task_statuses == {file[i].status : i \in 1..Len(file)}
    IN  IF \A st \in task_statuses : st = COMPLETED THEN "completed"
        ELSE IF FAILED \in task_statuses THEN "failed"
        ELSE IF IN_PROGRESS \in task_statuses THEN "in_progress"
        ELSE "pending"

(* WorkflowEngine.get_pipeline_status(pipeline_id) on a tasks.json        *)
(* holding file: the dictionary returned.  pipeline_id is copied into it   *)
(* and used for nothing else.                                              *)
get_pipeline_status(file, pipeline_id) ==
    [ pipeline_id |-> pipeline_id,
      tasks |-> [id \in {file[i].id : i \in 1..Len(file)} |->
                    LET t == file[CHOOSE i \in 1..Len(file) :
                                    /\ file[i].id = id
                                    /\ \A j \in (i + 1)..Len(file) : file[j].id # id]
                    IN  [title |-> t.title, status |-> t.status,
                         agent |-> t.assigned_agent]],
      overall_status |-> overall_status(file) ]

(* What agent.execute_task returns when it does not raise. *)
WorkerResult(agent_id) ==
    CASE agent_id = "agent:researcher:main" ->
            [status |-> "completed", findings |-> "findings"]
      [] agent_id = "agent:analyst:main" ->
            [status |-> "completed", outline |-> [title |-> "outline"]]
      [] agent_id = "agent:writer:main" ->
            [status |-> "completed", content |-> "article", topic |-> "X"]
      [] agent_id = "agent:seo:main" ->
            [status |-> "completed", optimized_content |-> "optimized article"]
      [] OTHER ->
            [status |-> "completed", passed |-> "yes"]

(* results[task.id] = {"status": "failed", "error": str(e)} *)
FailureEntry == [status |-> "failed", error |-> "error"]

(* Tasks added to the queue before the run: at most MaxExtraTasks. *)
MaxExtraTasks == 1
ExtraAgents == {"agent:researcher:main", "agent:quality:main", COORDINATOR, "agent1"}
ExtraPriorities == {CRITICAL, LOW}
(* An id no task has. *)
MissingId == "t0"
(* dependencies=None, an id that is not in the store, or an id add_task   *)
(* returned earlier                                                        *)
ExtraDeps == {{}, {MissingId}} \cup {{tasks[i].id} : i \in 1..Len(tasks)}

AddExtraTask ==
    /\ pc = "idle"
    /\ Len(tasks) < MaxExtraTasks
    /\ \E agent \in ExtraAgents, priority \in ExtraPriorities, deps \in ExtraDeps :
          add_task(FreshId, "Test Task", agent, EmptyDict, priority, deps, IoOk)
    /\ UNCHANGED <<updates, runVars>>
    /\ UNCHANGED auxVars

(* Tasks added for the research agent before the run, as                  *)
(* test_task_processing does: at most MaxResearchTasks.                    *)
MaxResearchTasks == 1

AddResearchTask ==
    /\ pc = "idle"
    /\ Len(tasks) < MaxResearchTasks
    /\ \E priority \in ExtraPriorities, deps \in ExtraDeps :
          add_task(FreshId, "Test Task", "agent:researcher:main", EmptyDict,
                   priority, deps, IoOk)
    /\ UNCHANGED <<updates, runVars>>
    /\ UNCHANGED auxVars

(* run_content_pipeline, up to the while loop *)
StartRun ==
    /\ pc = "idle"
    /\ LET built == execute_content_pipeline(tasks, "X")
       IN  /\ tasks' = built.file
           /\ pipeline' = built.pipeline
    /\ iteration' = 0
    /\ all_results' = EmptyDict
    /\ pc' = "loop"
    /\ UNCHANGED <<completed, updates, agent_idx, pending_tasks, task,
                   tasks_processed, results, final_results, polled, outcomes>>
    /\ UNCHANGED auxVars

(* while iteration < max_iterations: ... process_pending_tasks() begins;  *)
(* _propagate_task_data does nothing                                       *)
BeginPass ==
    /\ pc = "loop"
    /\ iteration < MAX_ITERATIONS
    /\ results' = EmptyDict
    /\ tasks_processed' = 0
    /\ agent_idx' = 0
    /\ polled' = {}
    /\ pc' = "poll"
    /\ UNCHANGED <<tasks, completed, updates, pipeline, iteration, pending_tasks,
                   task, all_results, final_results, outcomes>>
    /\ UNCHANGED auxVars

(* the while condition is false *)
LoopExit ==
    /\ pc = "loop"
    /\ iteration >= MAX_ITERATIONS
    /\ pc' = "finish"
    /\ UNCHANGED <<tasks, completed, updates, pipeline, iteration, agent_idx,
                   pending_tasks, task, tasks_processed, results, all_results,
                   final_results, polled, outcomes>>
    /\ UNCHANGED auxVars

(* for agent_id, agent in self.agents.items(): the agents after agent_idx *)
(* that are not the coordinator and whose get_pending_tasks is not empty   *)
(* Variant of the agent loop without the coordinator test. *)
Serviceable_with_coordinator ==
    {k \in (agent_idx + 1)..Len(EngineAgents) :
        get_pending_tasks(EngineAgents[k]) # <<>>}

Serviceable ==
    {k \in (agent_idx + 1)..Len(EngineAgents) :
        /\ EngineAgents[k] # COORDINATOR
        /\ get_pending_tasks(EngineAgents[k]) # <<>>}

(* The for loop over the agents advances to the next agent with pending   *)
(* tasks (the store does not change on the way), or ends.                  *)
PollAgents ==
    /\ pc = "poll"
    /\ IF Serviceable # {}
       THEN LET k == CHOOSE x \in Serviceable : \A y \in Serviceable : x <= y
                got == get_pending_tasks(EngineAgents[k])
            IN  /\ agent_idx' = k
                /\ pending_tasks' = got
                /\ polled' = polled \cup {got[i].id : i \in 1..Len(got)}
                /\ pc' = "dispatch"
       ELSE /\ agent_idx' = Len(EngineAgents)
            /\ pending_tasks' = <<>>
            /\ polled' = polled
            /\ pc' = "endpass"
    /\ UNCHANGED <<tasks, completed, updates, pipeline, iteration, task,
                   tasks_processed, results, all_results, final_results, outcomes>>
    /\ UNCHANGED auxVars

(* Variant of the dispatch that writes the wired payload back to the store. *)
Dispatch_writes_payload ==
    /\ pc = "dispatch"
    /\ pending_tasks # <<>>
    /\ LET t == Head(pending_tasks)
           wired == load_dependent_task_data(t, tasks, completed)
           i == FirstIndex(tasks, t.id)
       IN  /\ tasks' = [tasks EXCEPT ![i] = [UpdatedTask(tasks[i], IN_PROGRESS, None)
                                               EXCEPT !.payload = wired]]
           /\ completed' = completed
           /\ task' = [t EXCEPT !.payload = wired]
    /\ pending_tasks' = Tail(pending_tasks)
    /\ pc' = "call"
    /\ UNCHANGED <<updates, pipeline, iteration, agent_idx, tasks_processed,
                   results, all_results, final_results, polled, outcomes>>
    /\ UNCHANGED auxVars

(* for task in pending_tasks: update_task_status(IN_PROGRESS), the payload *)
(* is wired, and agent.execute_task(task.payload) is awaited               *)
Dispatch ==
    /\ pc = "dispatch"
    /\ pending_tasks # <<>>
    /\ LET t == Head(pending_tasks)
       IN  /\ update_task_status(t.id, IN_PROGRESS, None, IoOk)
           /\ task' = [t EXCEPT !.payload = load_dependent_task_data(t, tasks', completed')]
    /\ pending_tasks' = Tail(pending_tasks)
    /\ pc' = "call"
    /\ UNCHANGED <<updates, pipeline, iteration, agent_idx, tasks_processed,
                   results, all_results, final_results, polled, outcomes>>
    /\ UNCHANGED auxVars

(* Where the pass goes on after a task: the next task of the list, or the *)
(* next agent.                                                             *)
NextInPass(rest) == IF rest # <<>> THEN "dispatch" ELSE "poll"

(* Variant of the except branch in which the exception ends the pass. *)
AfterRaise_abort(rest) == "endpass"

(* except Exception: the task is marked and the for loop goes on *)
AfterRaise(rest) == NextInPass(rest)

(* execute_task returned result *)
WorkerReturns ==
    /\ pc = "call"
    /\ LET result == WorkerResult(EngineAgents[agent_idx])
       IN  /\ update_task_status(task.id, COMPLETED, result, IoOk)
           /\ results' = Put(results, task.id, result)
    /\ tasks_processed' = tasks_processed + 1
    /\ outcomes' = Append(outcomes, [id |-> task.id, agent |-> EngineAgents[agent_idx],
                                     outcome |-> "ok", iteration |-> iteration])
    /\ task' = None
    /\ pc' = NextInPass(pending_tasks)
    /\ UNCHANGED <<updates, pipeline, iteration, agent_idx, pending_tasks,
                   all_results, final_results, polled>>
    /\ UNCHANGED auxVars

(* Variant of the except branch that counts the failed task as processed. *)
WorkerRaises_counted ==
    /\ pc = "call"
    /\ update_task_status(task.id, FAILED, None, IoOk)
    /\ results' = Put(results, task.id, FailureEntry)
    /\ tasks_processed' = tasks_processed + 1
    /\ outcomes' = Append(outcomes, [id |-> task.id, agent |-> EngineAgents[agent_idx],
                                     outcome |-> "raise", iteration |-> iteration])
    /\ task' = None
    /\ pc' = AfterRaise(pending_tasks)
    /\ UNCHANGED <<updates, pipeline, iteration, agent_idx, pending_tasks,
                   all_results, final_results, polled>>
    /\ UNCHANGED auxVars

(* execute_task raised *)
WorkerRaises ==
    /\ pc = "call"
    /\ update_task_status(task.id, FAILED, None, IoOk)
    /\ results' = Put(results, task.id, FailureEntry)
    /\ outcomes' = Append(outcomes, [id |-> task.id, agent |-> EngineAgents[agent_idx],
                                     outcome |-> "raise", iteration |-> iteration])
    /\ task' = None
    /\ pc' = AfterRaise(pending_tasks)
    /\ UNCHANGED <<updates, pipeline, iteration, agent_idx, pending_tasks,
                   tasks_processed, all_results, final_results, polled>>
    /\ UNCHANGED auxVars

(* Variant of the exit test that never breaks out of the loop. *)
PipelineSettled_never == FALSE

(* The two break conditions of run_content_pipeline. *)
(* Variant of the exit check that gives up as soon as a task has failed. *)
PipelineSettled_on_failure ==
    LET pipeline_tasks == {tasks[i] : i \in {j \in 1..Len(tasks) :
                                               tasks[j].id \in PipelineIds(pipeline)}}
    IN  \/ \A t \in pipeline_tasks : t.status = COMPLETED
        \/ \E t \in pipeline_tasks : t.status = FAILED

PipelineSettled ==
    LET pipeline_tasks == {tasks[i] : i \in {j \in 1..Len(tasks) :
                                               tasks[j].id \in PipelineIds(pipeline)}}
    IN  \/ \A t \in pipeline_tasks : t.status = COMPLETED
        \/ \A t \in pipeline_tasks : t.status \in {COMPLETED, FAILED}

(* Variant of the end of a pass that counts productive iterations only. *)
EndPass_counts_progress_only ==
    /\ pc = "endpass"
    /\ IF tasks_processed = 0 /\ PipelineSettled
       THEN /\ pc' = "finish"
            /\ UNCHANGED <<all_results, iteration>>
       ELSE /\ all_results' = [x \in DOMAIN all_results \cup DOMAIN results |->
                                 IF x \in DOMAIN results THEN results[x]
                                 ELSE all_results[x]]
            /\ iteration' = IF tasks_processed = 0 THEN iteration ELSE iteration + 1
            /\ pc' = "sleep"
    /\ UNCHANGED <<tasks, completed, updates, pipeline, agent_idx, pending_tasks,
                   task, tasks_processed, results, final_results, polled, outcomes>>
    /\ UNCHANGED auxVars

(* process_pending_tasks returned: the exit check, or all_results.update, *)
(* iteration += 1 and asyncio.sleep(1)                                     *)
EndPass ==
    /\ pc = "endpass"
    /\ IF tasks_processed = 0 /\ PipelineSettled
       THEN /\ pc' = "finish"
            /\ UNCHANGED <<all_results, iteration>>
       ELSE /\ all_results' = [x \in DOMAIN all_results \cup DOMAIN results |->
                                 IF x \in DOMAIN results THEN results[x]
                                 ELSE all_results[x]]
            /\ iteration' = iteration + 1
            /\ pc' = "sleep"
    /\ UNCHANGED <<tasks, completed, updates, pipeline, agent_idx, pending_tasks,
                   task, tasks_processed, results, final_results, polled, outcomes>>
    /\ UNCHANGED auxVars

(* asyncio.sleep(1) is over *)
Wake ==
    /\ pc = "sleep"
    /\ pc' = "loop"
    /\ UNCHANGED <<tasks, completed, updates, pipeline, iteration, agent_idx,
                   pending_tasks, task, tasks_processed, results, all_results,
                   final_results, polled, outcomes>>
    /\ UNCHANGED auxVars

(* Variant of the collection that takes the result field of every        *)
(* pipeline task found, set or not.                                        *)
collected_results_unfiltered(file, p) ==
    LET have == {id \in PipelineIds(p) : task_in(file, id) # None}
    IN  [id \in have |-> task_in(file, id).result]

(* "Collect final results": for task_id in pipeline["tasks"].values(),    *)
(* if task and task.result: final_results[task_id] = task.result           *)
collected_results(file, p) ==
    LET have == {id \in PipelineIds(p) :
                    task_in(file, id) # None /\ Truthy(task_in(file, id).result)}
    IN  [id \in have |-> task_in(file, id).result]

(* Collect final results and return *)
Return ==
    /\ pc = "finish"
    /\ final_results' = collected_results(tasks, pipeline)
    /\ pc' = "done"
    /\ UNCHANGED <<tasks, completed, updates, pipeline, iteration, agent_idx,
                   pending_tasks, task, tasks_processed, results, all_results,
                   polled, outcomes>>
    /\ UNCHANGED auxVars

NextRun ==
    \/ AddExtraTask
    \/ StartRun
    \/ BeginPass
    \/ LoopExit
    \/ PollAgents
    \/ Dispatch
    \/ WorkerReturns
    \/ WorkerRaises
    \/ EndPass
    \/ Wake
    \/ Return

SpecRun == Init /\ [][NextRun]_vars

(* A run on a store that holds research tasks at most, every step of it   *)
(* eventually taken: the event loop resumes the coroutine after each await.*)
NextResearchRun ==
    \/ AddResearchTask
    \/ StartRun
    \/ BeginPass
    \/ LoopExit
    \/ PollAgents
    \/ Dispatch
    \/ WorkerReturns
    \/ WorkerRaises
    \/ EndPass
    \/ Wake
    \/ Return

SpecRunFair == Init /\ [][NextResearchRun]_vars /\ WF_vars(NextResearchRun)

----------------------------------------------------------------------------
(* Direct calls observed one by one: each call reads the clock once, and  *)
(* the clock has moved on by the next call.                                *)

(* A timestamp field that is None *)
NoTime == 0

(* created_at, updated_at, assigned_at, completed_at as add_task sets them *)
Stamp(at) ==
    [created_at |-> at, updated_at |-> at, assigned_at |-> NoTime,
     completed_at |-> NoTime]

(* Variant of the loop body that stamps completed_at on Failed as well. *)
stamped_any_terminal(st, status, at) ==
    IF status = IN_PROGRESS
    THEN [st EXCEPT !.updated_at = at, !.assigned_at = at]
    ELSE IF status \in {COMPLETED, FAILED}
    THEN [st EXCEPT !.updated_at = at, !.completed_at = at]
    ELSE [st EXCEPT !.updated_at = at]

(* The timestamps update_task_status leaves on the matched task:          *)
(* updated_at = now, then assigned_at or completed_at = updated_at         *)
stamped(st, status, at) ==
    IF status = IN_PROGRESS
    THEN [st EXCEPT !.updated_at = at, !.assigned_at = at]
    ELSE IF status = COMPLETED
    THEN [st EXCEPT !.updated_at = at, !.completed_at = at]
    ELSE [st EXCEPT !.updated_at = at]

(* What is kept of the call before the last one *)
Brief(call) ==
    [op |-> call.op,
     task_id |-> IF call.op = "none" THEN "" ELSE call.task_id,
     status  |-> IF call.op = "none" THEN "" ELSE call.status,
     result  |-> IF call.op = "none" THEN None ELSE call.result]

(* A call, as observed: its arguments, the outcome of its file operations, *)
(* how it ended ("returned" or "raised") and the id it returned ("" for    *)
(* a call that returns None).                                              *)
Call(op, task_id, status, result, io, outcome, returned) ==
    [op |-> op, task_id |-> task_id, status |-> status, result |-> result,
     io |-> io, outcome |-> outcome, returned |-> returned, prev |-> Brief(last)]

MaxTimedTasks == 1

(* The ids update_task_status is called with: those add_task returned and *)
(* one that no task has                                                    *)
KnownIds == {tasks[i].id : i \in 1..Len(tasks)} \cup {MissingId}

(* The results update_task_status is called with *)
TimedResults(status) == IF status = COMPLETED THEN {None, EmptyDict, R1} ELSE {None}

(* add_task("Test Task", "agent1", {}) returns the id it drew *)
AddTaskAt ==
    /\ Len(tasks) < MaxTimedTasks
    /\ add_task(FreshId, "Test Task", "agent1", EmptyDict, MEDIUM, {}, IoOk)
    /\ stamps' = Append(stamps, Stamp(now))
    /\ now' = now + 1
    /\ last' = Call("add_task", FreshId, PENDING, None, IoOk, "returned", FreshId)
    /\ UNCHANGED <<updates, promised, reads, sharedVars, callerVars, runVars>>

(* update_task_status(task_id, status) and                                *)
(* update_task_status(task_id, TaskStatus.COMPLETED, result): no statement *)
(* of it raises, the file errors being caught where they arise             *)
UpdateStatusAt ==
    /\ updates < MaxUpdates
    /\ \E task_id \in KnownIds, status \in TaskStatus :
         \E result \in TimedResults(status) :
            /\ update_task_status(task_id, status, result, IoOk)
            /\ LET i == FirstIndex(load_all_tasks(IoOk), task_id)
               IN  stamps' = IF i = 0 THEN stamps
                             ELSE [stamps EXCEPT ![i] = stamped(@, status, now)]
            /\ last' = Call("update_task_status", task_id, status, result, IoOk,
                            "returned", "")
    /\ now' = now + 1
    /\ updates' = updates + 1
    /\ UNCHANGED <<promised, reads, sharedVars, callerVars, runVars>>

NextTimed == AddTaskAt \/ UpdateStatusAt

SpecTimed == Init /\ [][NextTimed]_vars

----------------------------------------------------------------------------
(* Results across restarts and compaction.                                 *)

MaxResultTasks == 1

(* promised after update_task_status(task_id, status, result) reached the *)
(* task of that id: a Completed write records its result, any other write  *)
(* marks what was recorded as no longer current.                           *)
Promise(task_id, status, result) ==
    IF status = COMPLETED
    THEN Put(promised, task_id, [result |-> result, current |-> TRUE])
    ELSE IF task_id \in DOMAIN promised
    THEN Put(promised, task_id, [promised[task_id] EXCEPT !.current = FALSE])
    ELSE promised

(* add_task("Test Task", "agent1", {}) *)
AddResultTask ==
    /\ Len(tasks) + Cardinality(DOMAIN completed \ {tasks[i].id : i \in 1..Len(tasks)})
          < MaxResultTasks
    /\ LET task_id == TaskIdPool[Cardinality(DOMAIN completed
                                    \cup {tasks[i].id : i \in 1..Len(tasks)}) + 1]
       IN  /\ add_task(task_id, "Test Task", "agent1", EmptyDict, MEDIUM, {}, IoOk)
           /\ last' = Call("add_task", task_id, PENDING, None, IoOk, "returned", task_id)
    /\ UNCHANGED <<updates, now, stamps, promised, reads, sharedVars, callerVars, runVars>>

(* update_task_status(task_id, status[, result]) *)
UpdateResultStatus ==
    /\ updates < MaxUpdates
    /\ \E task_id \in KnownIds, status \in TaskStatus :
         \E result \in TimedResults(status) :
            /\ update_task_status(task_id, status, result, IoOk)
            /\ promised' = IF get_task(task_id) # None
                           THEN Promise(task_id, status, result) ELSE promised
            /\ last' = Call("update_task_status", task_id, status, result, IoOk,
                            "returned", "")
    /\ updates' = updates + 1
    /\ UNCHANGED <<now, stamps, reads, sharedVars, callerVars, runVars>>

(* TaskQueue(queue_dir) over the same directory, after a restart: the     *)
(* constructor makes the directories if they are missing and reads         *)
(* nothing; a TaskQueue keeps no task in memory.                           *)
NewTaskQueue ==
    /\ last.op # "TaskQueue"
    /\ last' = Call("TaskQueue", "", "", None, IoOk, "returned", "")
    /\ UNCHANGED <<tasks, completed, updates, now, stamps, promised, reads, sharedVars, callerVars, runVars>>

(* Compaction: a Completed task that is in the archive leaves the live    *)
(* collection.                                                             *)
Compaction ==
    /\ \E i \in 1..Len(tasks) :
          /\ tasks[i].status = COMPLETED
          /\ tasks[i].id \in DOMAIN completed
          /\ tasks' = SubSeq(tasks, 1, i - 1) \o SubSeq(tasks, i + 1, Len(tasks))
          /\ last' = Call("compaction", tasks[i].id, "", None, IoOk, "returned", "")
    /\ UNCHANGED <<completed, updates, now, stamps, promised, reads, sharedVars, callerVars, runVars>>

NextResult == AddResultTask \/ UpdateResultStatus \/ NewTaskQueue \/ Compaction

SpecResult == Init /\ [][NextResult]_vars

----------------------------------------------------------------------------
(* add_task with the id as uuid4 may draw it.  str(uuid.uuid4())[:8] is 32 *)
(* random bits and add_task compares it with nothing, so a draw may repeat *)
(* an earlier one; DrawnIds is a pool small enough for that to happen.     *)

MaxDrawnTasks == 2
DrawnIds == {"t1", "t2", "t3"}
DrawnPriorities == {HIGH, MEDIUM, LOW}

AddDrawnTask ==
    /\ Len(tasks) < MaxDrawnTasks
    /\ \E task_id \in DrawnIds, agent \in QueueAgents, priority \in DrawnPriorities :
          /\ add_task(task_id, "Test Task", agent, EmptyDict, priority, {}, IoOk)
          /\ last' = Call("add_task", task_id, PENDING, None, IoOk, "returned", task_id)
    /\ UNCHANGED <<updates, now, stamps, promised, reads, sharedVars, callerVars, runVars>>

NextDrawn == AddDrawnTask

SpecDrawn == Init /\ [][NextDrawn]_vars

----------------------------------------------------------------------------
(* Direct calls whose file operations may fail.  The k-th call made draws *)
(* the k-th id of TaskIdPool (now counts the calls).                       *)

MaxStoredTasks == 2
StoredStatuses == {IN_PROGRESS, COMPLETED, FAILED}

(* add_task: _persist_task loads, appends and writes; an exception of the *)
(* read or of the write is caught and logged where it arises, and add_task *)
(* logs "Created task" and returns task_id in every case.                  *)
AddTaskIo ==
    /\ now <= MaxStoredTasks
    /\ \E io \in IoOutcomes :
          /\ add_task(TaskIdPool[now], "Test Task", "agent1", EmptyDict, MEDIUM, {}, io)
          /\ last' = Call("add_task", TaskIdPool[now], PENDING, None, io,
                          "returned", TaskIdPool[now])
    /\ now' = now + 1
    /\ UNCHANGED <<updates, stamps, promised, reads, sharedVars, callerVars, runVars>>

(* update_task_status: loads, updates the match, archives a Completed     *)
(* task and writes the list back, each file error caught where it arises   *)
UpdateStatusIo ==
    /\ updates < MaxUpdates
    /\ \E task_id \in KnownIds, status \in StoredStatuses, io \in IoOutcomes :
          /\ update_task_status(task_id, status,
                                IF status = COMPLETED THEN R1 ELSE None, io)
          /\ last' = Call("update_task_status", task_id, status,
                          IF status = COMPLETED THEN R1 ELSE None, io, "returned", "")
    /\ updates' = updates + 1
    /\ UNCHANGED <<now, stamps, promised, reads, sharedVars, callerVars, runVars>>

NextStorage == AddTaskIo \/ UpdateStatusIo

SpecStorage == Init /\ [][NextStorage]_vars

----------------------------------------------------------------------------
(* Several run_content_pipeline coroutines on one event loop and one      *)
(* WorkflowEngine, as when POST /api/pipeline/run is served again before   *)
(* an earlier request has returned.  A coroutine runs until it awaits      *)
(* execute_task or asyncio.sleep, or returns; only then does the loop      *)
(* start or resume another one.  The result dictionaries of a run, which   *)
(* no other run reads, are left out, and every execute_task returns.       *)

(* The event loop may execute a step of run r: r is the coroutine that is *)
(* running, or every coroutine is suspended and r can be started or        *)
(* resumed.                                                                *)
Turn(r) ==
    \/ running = r
    \/ running = 0 /\ runs[r].pc \in {"idle", "call", "sleep"}

(* The two break conditions of run_content_pipeline, for pipeline p *)
pipeline_settled(file, p) ==
    LET pipeline_tasks == {file[i] : i \in {j \in 1..Len(file) :
                                              file[j].id \in PipelineIds(p)}}
    IN  \/ \A t \in pipeline_tasks : t.status = COMPLETED
        \/ \A t \in pipeline_tasks : t.status \in {COMPLETED, FAILED}

(* The agents after position idx that are not the coordinator and whose   *)
(* get_pending_tasks is not empty                                          *)
serviceable_after(idx) ==
    {k \in (idx + 1)..Len(EngineAgents) :
        /\ EngineAgents[k] # COORDINATOR
        /\ get_pending_tasks(EngineAgents[k]) # <<>>}

(* run_content_pipeline, up to the while loop; runs are numbered in the   *)
(* order in which they start                                               *)
RunStart(r) ==
    /\ Turn(r)
    /\ runs[r].pc = "idle"
    /\ \A q \in Runs : q < r => runs[q].pc # "idle"
    /\ LET built == execute_content_pipeline(tasks, "X")
       IN  /\ tasks' = built.file
           /\ runs' = [runs EXCEPT ![r] = [@ EXCEPT !.pc = "loop",
                                                    !.pipeline = built.pipeline,
                                                    !.iteration = 0]]
    /\ running' = r
    /\ UNCHANGED <<completed, updates, handed, now, stamps, last, promised, reads,
                   callerVars, runVars>>

(* while iteration < max_iterations: ... process_pending_tasks() begins *)
RunBeginPass(r) ==
    /\ running = r
    /\ runs[r].pc = "loop"
    /\ runs[r].iteration < MAX_ITERATIONS
    /\ runs' = [runs EXCEPT ![r] = [@ EXCEPT !.pc = "poll", !.agent_idx = 0,
                                             !.tasks_processed = 0]]
    /\ UNCHANGED <<storeVars, updates, running, handed, now, stamps, last,
                   promised, reads, callerVars, runVars>>

(* the while condition is false *)
RunLoopExit(r) ==
    /\ running = r
    /\ runs[r].pc = "loop"
    /\ runs[r].iteration >= MAX_ITERATIONS
    /\ runs' = [runs EXCEPT ![r] = [@ EXCEPT !.pc = "finish"]]
    /\ UNCHANGED <<storeVars, updates, running, handed, now, stamps, last,
                   promised, reads, callerVars, runVars>>

(* The for loop over the agents advances to the next agent with pending   *)
(* tasks, or ends.                                                         *)
RunPollAgents(r) ==
    /\ running = r
    /\ runs[r].pc = "poll"
    /\ LET ready == serviceable_after(runs[r].agent_idx)
       IN  IF ready # {}
           THEN LET k == CHOOSE x \in ready : \A y \in ready : x <= y
                IN  runs' = [runs EXCEPT ![r] =
                               [@ EXCEPT !.pc = "dispatch", !.agent_idx = k,
                                         !.pending_tasks =
                                             get_pending_tasks(EngineAgents[k])]]
           ELSE runs' = [runs EXCEPT ![r] =
                           [@ EXCEPT !.pc = "endpass",
                                     !.agent_idx = Len(EngineAgents),
                                     !.pending_tasks = <<>>]]
    /\ UNCHANGED <<storeVars, updates, running, handed, now, stamps, last,
                   promised, reads, callerVars, runVars>>

(* for task in pending_tasks: update_task_status(IN_PROGRESS), the payload *)
(* is wired, and agent.execute_task(task.payload) is awaited: the          *)
(* coroutine is suspended                                                  *)
RunDispatch(r) ==
    /\ running = r
    /\ runs[r].pc = "dispatch"
    /\ runs[r].pending_tasks # <<>>
    /\ LET t == Head(runs[r].pending_tasks)
       IN  /\ update_task_status(t.id, IN_PROGRESS, None, IoOk)
           /\ runs' = [runs EXCEPT ![r] =
                         [@ EXCEPT !.pc = "call",
                                   !.pending_tasks = Tail(@),
                                   !.task = [t EXCEPT !.payload =
                                      load_dependent_task_data(t, tasks', completed')]]]
           /\ handed' = Append(handed, [run |-> r, id |-> t.id])
    /\ running' = 0
    /\ UNCHANGED <<updates, now, stamps, last, promised, reads, callerVars, runVars>>

(* execute_task returned result: the coroutine is resumed *)
RunWorkerReturns(r) ==
    /\ Turn(r)
    /\ runs[r].pc = "call"
    /\ update_task_status(runs[r].task.id, COMPLETED,
                          WorkerResult(EngineAgents[runs[r].agent_idx]), IoOk)
    /\ runs' = [runs EXCEPT ![r] =
                  [@ EXCEPT !.pc = NextInPass(runs[r].pending_tasks),
                            !.task = None,
                            !.tasks_processed = @ + 1]]
    /\ running' = r
    /\ UNCHANGED <<updates, handed, now, stamps, last, promised, reads, callerVars, runVars>>

(* process_pending_tasks returned: the exit check, or iteration += 1 and  *)
(* await asyncio.sleep(1), which suspends the coroutine                    *)
RunEndPass(r) ==
    /\ running = r
    /\ runs[r].pc = "endpass"
    /\ IF runs[r].tasks_processed = 0 /\ pipeline_settled(tasks, runs[r].pipeline)
       THEN /\ runs' = [runs EXCEPT ![r] = [@ EXCEPT !.pc = "finish"]]
            /\ running' = r
       ELSE /\ runs' = [runs EXCEPT ![r] = [@ EXCEPT !.pc = "sleep",
                                                     !.iteration = @ + 1]]
            /\ running' = 0
    /\ UNCHANGED <<storeVars, updates, handed, now, stamps, last, promised,
                   reads, callerVars, runVars>>

(* asyncio.sleep(1) is over: the coroutine is resumed *)
RunWake(r) ==
    /\ Turn(r)
    /\ runs[r].pc = "sleep"
    /\ runs' = [runs EXCEPT ![r] = [@ EXCEPT !.pc = "loop"]]
    /\ running' = r
    /\ UNCHANGED <<storeVars, updates, handed, now, stamps, last, promised,
                   reads, callerVars, runVars>>

(* Collect final results and return: the coroutine ends *)
RunReturn(r) ==
    /\ running = r
    /\ runs[r].pc = "finish"
    /\ runs' = [runs EXCEPT ![r] = [@ EXCEPT !.pc = "done"]]
    /\ running' = 0
    /\ UNCHANGED <<storeVars, updates, handed, now, stamps, last, promised,
                   reads, callerVars, runVars>>

NextShared ==
    \/ AddResearchTask
    \/ \E r \in Runs :
          \/ RunStart(r)
          \/ RunBeginPass(r)
          \/ RunLoopExit(r)
          \/ RunPollAgents(r)
          \/ RunDispatch(r)
          \/ RunWorkerReturns(r)
          \/ RunEndPass(r)
          \/ RunWake(r)
          \/ RunReturn(r)

SpecShared == Init /\ [][NextShared]_vars

----------------------------------------------------------------------------
(* add_task and update_task_status issued by callers in different         *)
(* processes.  A call reads tasks.json into a list, changes the list and   *)
(* writes it back; no lock is taken and the file is opened anew for the    *)
(* write, so another process may run between the read and the write.       *)

MaxCallerTasks == 2
CallerStatuses == {IN_PROGRESS, COMPLETED}

(* add_task up to and including _load_all_tasks() in _persist_task *)
CallerLoadsForAdd(c) ==
    /\ callers[c].pc = "idle"
    /\ issued.drawn < MaxCallerTasks
    /\ callers' = [callers EXCEPT ![c] =
                     [pc |-> "loaded", op |-> "add_task",
                      task_id |-> TaskIdPool[issued.drawn + 1],
                      status |-> PENDING,
                      all_tasks |-> load_all_tasks(IoOk)]]
    /\ issued' = [issued EXCEPT !.drawn = @ + 1]
    /\ UNCHANGED <<storeVars, updates, now, stamps, last, promised, reads,
                   sharedVars, runVars>>

(* update_task_status up to and including _load_all_tasks(), for the id   *)
(* of a task that is in the store                                          *)
CallerLoadsForUpdate(c) ==
    /\ callers[c].pc = "idle"
    /\ updates < MaxUpdates
    /\ \E i \in 1..Len(tasks), status \in CallerStatuses :
          callers' = [callers EXCEPT ![c] =
                        [pc |-> "loaded", op |-> "update_task_status",
                         task_id |-> tasks[i].id,
                         status |-> status,
                         all_tasks |-> load_all_tasks(IoOk)]]
    /\ updates' = updates + 1
    /\ UNCHANGED <<storeVars, issued, now, stamps, last, promised, reads,
                   sharedVars, runVars>>

(* The rest of the call: tasks.append(task), or the loop over all_tasks   *)
(* with _archive_task, and _persist_tasks; the call returns                *)
CallerWrites(c) ==
    /\ callers[c].pc = "loaded"
    /\ LET call == callers[c]
           i == FirstIndex(call.all_tasks, call.task_id)
           t == UpdatedTask(call.all_tasks[i], call.status,
                            IF call.status = COMPLETED THEN R1 ELSE None)
       IN  IF call.op = "add_task"
           THEN /\ tasks' = persist_tasks(
                       Append(call.all_tasks,
                              Task(call.task_id, "Test Task", "agent1", MEDIUM, {},
                                   EmptyDict)), IoOk)
                /\ UNCHANGED completed
                /\ issued' = [issued EXCEPT !.created = @ \cup {call.task_id}]
           ELSE /\ tasks' = persist_tasks([call.all_tasks EXCEPT ![i] = t], IoOk)
                /\ completed' = IF call.status = COMPLETED
                                THEN archive_task(t, IoOk) ELSE completed
                /\ issued' = [issued EXCEPT
                                !.written = Put(@, call.task_id, call.status)]
    /\ callers' = [callers EXCEPT ![c] = CallerIdle]
    /\ UNCHANGED <<updates, now, stamps, last, promised, reads, sharedVars, runVars>>

NextCallers ==
    \E c \in Callers :
        \/ CallerLoadsForAdd(c)
        \/ CallerLoadsForUpdate(c)
        \/ CallerWrites(c)

SpecCallers == Init /\ [][NextCallers]_vars

----------------------------------------------------------------------------
(* Direct calls among which get_pending_tasks is observed: what the call  *)
(* leaves in tasks.json and completed/, and the list it returns.           *)

MaxListedTasks == 2
MaxReads == 2
(* dependencies=None, or the id of the first task *)
ListedDeps == {{}, {TaskIdPool[1]}}

(* Variant of get_pending_tasks that marks the tasks it returns Assigned  *)
(* and writes the list back.                                               *)
get_pending_tasks_call_assigning(agent_id) ==
    LET got == get_pending_tasks(agent_id)
    IN  [ file |-> [i \in 1..Len(tasks) |->
                      IF \E k \in 1..Len(got) : got[k] = tasks[i]
                      THEN [tasks[i] EXCEPT !.status = ASSIGNED] ELSE tasks[i]],
          archive |-> completed,
          returned |-> got ]

(* TaskQueue.get_pending_tasks as a call: it reads tasks.json, filters and *)
(* sorts in memory and writes nothing.                                     *)
get_pending_tasks_call(agent_id) ==
    [ file |-> tasks,
      archive |-> completed,
      returned |-> get_pending_tasks(agent_id) ]

AddListedTask ==
    /\ Len(tasks) < MaxListedTasks
    /\ \E agent \in QueueAgents, deps \in ListedDeps :
          add_task(FreshId, "Test Task", agent, EmptyDict, MEDIUM, deps, IoOk)
    /\ last' = [op |-> "add_task"]
    /\ UNCHANGED <<updates, now, stamps, promised, reads, sharedVars, callerVars, runVars>>

UpdateListedStatus ==
    /\ updates < MaxUpdates
    /\ \E i \in 1..Len(tasks), status \in StoredStatuses :
          update_task_status(tasks[i].id, status,
                             IF status = COMPLETED THEN R1 ELSE None, IoOk)
    /\ updates' = updates + 1
    /\ last' = [op |-> "update_task_status"]
    /\ UNCHANGED <<now, stamps, promised, reads, sharedVars, callerVars, runVars>>

(* queue.get_pending_tasks(agent_id) *)
GetPendingCall ==
    /\ reads < MaxReads
    /\ \E agent_id \in QueueAgents :
          LET call == get_pending_tasks_call(agent_id)
          IN  /\ tasks' = call.file
              /\ completed' = call.archive
              /\ last' = [op |-> "get_pending_tasks", agent_id |-> agent_id,
                          returned |-> call.returned,
                          prev |-> IF last.op = "get_pending_tasks"
                                   THEN last.agent_id ELSE ""]
    /\ reads' = reads + 1
    /\ UNCHANGED <<updates, now, stamps, promised, sharedVars, callerVars, runVars>>

NextListed == AddListedTask \/ UpdateListedStatus \/ GetPendingCall

SpecListed == Init /\ [][NextListed]_vars

----------------------------------------------------------------------------
(* Properties of the queue under direct calls.                             *)

Range(s) == {s[i] : i \in 1..Len(s)}
Terminal(status) == status \in {COMPLETED, FAILED}

(* The tasks of worker w that are Pending and whose every dependency id   *)
(* names a live task with status Completed, by position in the store.      *)
ReadyPositions(w) ==
    {i \in 1..Len(tasks) :
        /\ tasks[i].assigned_agent = w
        /\ tasks[i].status = PENDING
        /\ \A d \in tasks[i].dependencies :
              \E j \in 1..Len(tasks) : tasks[j].id = d /\ tasks[j].status = COMPLETED}

(* C1: in every reachable store state and for every worker id w (one with *)
(* no task included), get_pending_tasks(w) holds exactly the tasks of w    *)
(* that are Pending with every dependency present and Completed, each      *)
(* once.  The state right after the update that completes a task's last    *)
(* dependency is such a state, so the task is in the list from then on.    *)
C1_DependencyGating ==
    \A w \in QueueAgents \cup {"agent:nobody"} :
        LET pending == get_pending_tasks(w)
        IN  /\ Range(pending) = {tasks[i] : i \in ReadyPositions(w)}
            /\ Len(pending) = Cardinality(ReadyPositions(w))

(* A task with a dependency is listed for its worker: its dependency was  *)
(* marked Completed by an update, and it is in no other worker's list.     *)
C1_Witness ==
    \E i \in 1..Len(tasks) :
        /\ tasks[i].dependencies # {}
        /\ tasks[i] \in Range(get_pending_tasks(tasks[i].assigned_agent))
        /\ \A w \in QueueAgents \ {tasks[i].assigned_agent} :
              tasks[i] \notin Range(get_pending_tasks(w))

(* C2: the list get_pending_tasks returns is ascending in priority value: *)
(* no task is preceded by a task of strictly greater value.                *)
C2_PriorityOrdering ==
    LET pending == get_pending_tasks("agent1")
    IN  \A i, j \in 1..Len(pending) :
            i < j => pending[i].priority <= pending[j].priority

(* The scenario of test_task_priority_ordering: created Low, High,        *)
(* Critical and returned Critical, High, Low.                              *)
C2_Witness ==
    LET pending == get_pending_tasks("agent1")
    IN  /\ Len(tasks) = 3 /\ Len(pending) = 3
        /\ <<tasks[1].priority, tasks[2].priority, tasks[3].priority>> = <<LOW, HIGH, CRITICAL>>
        /\ <<pending[1].priority, pending[2].priority, pending[3].priority>> = <<CRITICAL, HIGH, LOW>>

(* C3: no call moves a task out of a terminal status: a task that is      *)
(* Completed or Failed has the same status after every step.               *)
C3_TerminalIsFinal ==
    [][\A i \in 1..Len(tasks) :
          Terminal(tasks[i].status) => tasks'[i].status = tasks[i].status]_vars

(* C4: a task's result is non-null if and only if its status is Completed *)
C4_ResultIffCompleted ==
    \A i \in 1..Len(tasks) :
        (tasks[i].result # None) <=> (tasks[i].status = COMPLETED)

----------------------------------------------------------------------------
(* Properties of a run of the workflow engine.                             *)

(* Position of an agent in self.agents *)
AgentIndex(agent_id) == CHOOSE k \in 1..Len(EngineAgents) : EngineAgents[k] = agent_id

(* The outcomes of the Worker calls made so far, as a set *)
Outcomes == {outcomes[n] : n \in 1..Len(outcomes)}

(* C5: in a run of the driver loop, when a task has been marked           *)
(* InProgress and handed to its Worker, each of its dependencies is in the *)
(* store with status Completed.                                            *)
C5_DispatchAfterDependencies ==
    pc = "call" =>
        /\ get_task(task.id).status = IN_PROGRESS
        /\ \A dep_id \in task.dependencies :
              \E j \in 1..Len(tasks) :
                  tasks[j].id = dep_id /\ tasks[j].status = COMPLETED

(* A task with a dependency is at its Worker. *)
C5_Witness ==
    /\ pc = "call"
    /\ task.dependencies # {}
    /\ get_task(task.id).status = IN_PROGRESS

(* Every Worker call so far returned. *)
WorkersAlwaysSucceed == \A o \in Outcomes : o.outcome = "ok"

(* The store holds the five tasks of one pipeline and nothing else. *)
FreshPipelineOnly == pipeline # None /\ Len(tasks) = 5

(* C6: with Workers that always succeed and a store holding one freshly   *)
(* built pipeline, run_content_pipeline returns, all five tasks are        *)
(* Completed, the overall status is completed and the iteration count      *)
(* reported is at most 5.                                                  *)
C6_Convergence ==
    /\ [](FreshPipelineOnly /\ WorkersAlwaysSucceed => iteration <= 5)
    /\ [](FreshPipelineOnly /\ WorkersAlwaysSucceed /\ pc = "done" =>
            /\ \A i \in 1..Len(tasks) : tasks[i].status = COMPLETED
            /\ overall_status(tasks) = "completed")
    /\ (FreshPipelineOnly /\ pc = "loop" /\ iteration = 0)
          ~> (pc = "done" \/ ~WorkersAlwaysSucceed)

(* The run returned after five successful Worker calls on a pipeline-only *)
(* store.                                                                  *)
C6_Witness ==
    /\ pc = "done"
    /\ FreshPipelineOnly
    /\ WorkersAlwaysSucceed
    /\ Len(outcomes) = 5
    /\ DOMAIN final_results = PipelineIds(pipeline)

(* Every call of the research Worker so far raised and every call of      *)
(* another Worker returned.                                                *)
ResearchAlwaysFails ==
    \A o \in Outcomes : (o.agent = "agent:researcher:main") <=> (o.outcome = "raise")

(* C7: with a research Worker that always fails and all other Workers     *)
(* succeeding, run_content_pipeline returns at or before MAX_ITERATIONS    *)
(* iterations and the overall status afterwards is failed.                 *)
C7_BoundedTermination ==
    /\ [](ResearchAlwaysFails => iteration <= MAX_ITERATIONS)
    /\ [](ResearchAlwaysFails /\ pc = "done" => overall_status(tasks) = "failed")
    /\ (pc = "loop" /\ iteration = 0) ~> (pc = "done" \/ ~ResearchAlwaysFails)

(* The run returned at the ceiling after the research Worker raised. *)
C7_Witness ==
    /\ pc = "done"
    /\ ResearchAlwaysFails
    /\ \E o \in Outcomes : o.id = pipeline.tasks.research /\ o.outcome = "raise"
    /\ iteration = MAX_ITERATIONS
    /\ overall_status(tasks) = "failed"

(* The Worker calls of the pass in progress that raised *)
RaisedInPass == {o \in Outcomes : o.iteration = iteration /\ o.outcome = "raise"}

(* Task i became ready in this pass only after the agent at position k    *)
(* was polled: one of its dependencies was completed in this pass by that  *)
(* agent or a later one.                                                   *)
ReadyAfterPoll(i, k) ==
    \E dep_id \in tasks[i].dependencies : \E o \in Outcomes :
        /\ o.id = dep_id
        /\ o.iteration = iteration
        /\ o.outcome = "ok"
        /\ AgentIndex(o.agent) >= k

(* C8: a Worker call that raises does not end process_pending_tasks: when *)
(* the pass is over the task is Failed with the error in the pass's result *)
(* map, and no task that was ready for the same worker or for a worker     *)
(* polled later has been left undispatched.                                *)
C8_RaiseIsContained ==
    pc = "endpass" =>
        \A o \in RaisedInPass :
            /\ get_task(o.id).status = FAILED
            /\ get_task(o.id).result = None
            /\ o.id \in DOMAIN results /\ results[o.id] = FailureEntry
            /\ polled \subseteq DOMAIN results
            /\ \A k \in AgentIndex(o.agent)..Len(EngineAgents) :
                  EngineAgents[k] # COORDINATOR =>
                      \A i \in ReadyPositions(EngineAgents[k]) : ReadyAfterPoll(i, k)

(* A pass is over in which a Worker call raised, the next task of the     *)
(* same worker was completed and so was a task of a later worker.          *)
C8_Witness ==
    /\ pc = "endpass"
    /\ \E n \in 1..Len(outcomes) : \E m \in (n + 1)..Len(outcomes) :
          /\ outcomes[n] \in RaisedInPass
          /\ outcomes[n + 1].agent = outcomes[n].agent
          /\ outcomes[n + 1].outcome = "ok"
          /\ outcomes[n + 1].iteration = iteration
          /\ AgentIndex(outcomes[m].agent) > AgentIndex(outcomes[n].agent)
          /\ outcomes[m].outcome = "ok"
          /\ outcomes[m].iteration = iteration

(* Task j depends on task i through at most n dependency links. *)
RECURSIVE DependsWithin(_, _, _)
DependsWithin(j, i, n) ==
    /\ n > 0
    /\ \E dep_id \in tasks[j].dependencies : \E m \in 1..Len(tasks) :
          /\ tasks[m].id = dep_id
          /\ (m = i \/ DependsWithin(m, i, n - 1))

(* C9: in a driver run, every task that depends, directly or through      *)
(* other tasks, on a Failed task is Pending and is not and has not been at *)
(* a Worker, and the overall status is failed.                             *)
C9_FailureWithholdsDependents ==
    \A i \in 1..Len(tasks) :
        tasks[i].status = FAILED =>
            /\ overall_status(tasks) = "failed"
            /\ \A j \in 1..Len(tasks) :
                  DependsWithin(j, i, Len(tasks)) =>
                      /\ tasks[j].status = PENDING
                      /\ \A o \in Outcomes : o.id # tasks[j].id
                      /\ (pc = "call" => task.id # tasks[j].id)

(* The run returned with the research task Failed and the quality task,   *)
(* four links down the chain, still Pending.                               *)
C9_Witness ==
    /\ pc = "done"
    /\ get_task(pipeline.tasks.research).status = FAILED
    /\ get_task(pipeline.tasks.quality).status = PENDING
    /\ \E i, j \in 1..Len(tasks) :
          /\ tasks[i].id = pipeline.tasks.research
          /\ tasks[j].id = pipeline.tasks.quality
          /\ DependsWithin(j, i, Len(tasks))
          /\ ~DependsWithin(j, i, 3)

StageKeys == {"research", "analysis", "writing", "seo", "quality"}

(* C10: the step that calls execute_content_pipeline appends exactly five *)
(* tasks, returns their ids under the keys research, analysis, writing,    *)
(* seo and quality, the research task has no dependencies and every other  *)
(* stage depends on exactly the stage before it.                           *)
C10_PipelineShape ==
    [][ (pc = "idle" /\ pc' = "loop") =>
          LET n == Len(tasks)
              ids == pipeline'.tasks
              deps(k) == task_in(tasks', ids[k]).dependencies
          IN  /\ Len(tasks') = n + 5
              /\ SubSeq(tasks', 1, n) = tasks
              /\ DOMAIN ids = StageKeys
              /\ {ids[k] : k \in StageKeys} = {tasks'[i].id : i \in (n + 1)..(n + 5)}
              /\ Cardinality({ids[k] : k \in StageKeys}) = 5
              /\ \A i \in 1..n : tasks[i].id \notin {ids[k] : k \in StageKeys}
              /\ deps("research") = {}
              /\ deps("analysis") = {ids["research"]}
              /\ deps("writing") = {ids["analysis"]}
              /\ deps("seo") = {ids["writing"]}
              /\ deps("quality") = {ids["seo"]}
      ]_vars

(* A pipeline has just been built in a store that held a task already. *)
C10_Witness ==
    /\ pc = "loop"
    /\ iteration = 0
    /\ Len(tasks) = 6
    /\ DOMAIN pipeline.tasks = StageKeys
    /\ \A k \in StageKeys : get_task(pipeline.tasks[k]).status = PENDING
    /\ get_task(pipeline.tasks.seo).dependencies = {pipeline.tasks.writing}

----------------------------------------------------------------------------
(* Properties of the observed direct calls.                                *)

(* This step is a call of update_task_status. *)
UpdateStep == now' # now /\ last'.op = "update_task_status"

(* This step is a call of update_task_status(Completed, r) that follows a *)
(* call with the same id, status and r.                                    *)
RepeatedCompletion ==
    /\ UpdateStep
    /\ last'.status = COMPLETED
    /\ last.op = "update_task_status"
    /\ last.status = COMPLETED
    /\ last.task_id = last'.task_id
    /\ last.result = last'.result

(* C13: a second update_task_status(id, Completed, r) right after the     *)
(* first raises nothing and leaves the task Completed with completed_at    *)
(* as the first call set it, or with result r.                             *)
C13_IdempotentCompletion ==
    [][ RepeatedCompletion =>
          LET i == FirstIndex(tasks, last'.task_id)
          IN  /\ last'.outcome = "returned"
              /\ i # 0 =>
                   /\ tasks'[i].status = COMPLETED
                   /\ \/ stamps'[i].completed_at = stamps[i].completed_at
                      \/ tasks'[i].result = last'.result
      ]_vars

(* An existing task was completed twice in a row with the same result;    *)
(* the second call moved completed_at and the result is the one given.     *)
C13_Witness ==
    /\ last.op = "update_task_status" /\ last.status = COMPLETED
    /\ last.prev.op = "update_task_status" /\ last.prev.status = COMPLETED
    /\ last.prev.task_id = last.task_id
    /\ last.prev.result = last.result
    /\ last.result = R1
    /\ \E i \in 1..Len(tasks) :
          /\ tasks[i].id = last.task_id
          /\ tasks[i].status = COMPLETED
          /\ tasks[i].result = R1
          /\ stamps[i].completed_at = now - 1
          /\ stamps[i].created_at < now - 2

(* C14: update_task_status stamps by the status written.  InProgress sets *)
(* assigned_at; Completed sets completed_at and stores the result given;   *)
(* Failed changes status and updated_at only.  assigned_at changes in no   *)
(* other step than an InProgress write, completed_at in no other step than *)
(* a Completed write, and add_task leaves both None.                       *)
C14_StampsByTransition ==
    [][ /\ UpdateStep =>
            LET i == FirstIndex(tasks, last'.task_id)
                status == last'.status
            IN  i # 0 =>
                  /\ tasks'[i].status = status
                  /\ stamps'[i].updated_at = now
                  /\ stamps'[i].created_at = stamps[i].created_at
                  /\ status = IN_PROGRESS =>
                        /\ stamps'[i].assigned_at = now
                        /\ stamps'[i].completed_at = stamps[i].completed_at
                        /\ tasks'[i].result = tasks[i].result
                  /\ status = COMPLETED =>
                        /\ stamps'[i].completed_at = now
                        /\ tasks'[i].result = last'.result
                        /\ stamps'[i].assigned_at = stamps[i].assigned_at
                  /\ status = FAILED =>
                        /\ tasks'[i] = [tasks[i] EXCEPT !.status = FAILED]
                        /\ stamps'[i] = [stamps[i] EXCEPT !.updated_at = now]
        /\ \A i \in 1..Len(tasks) :
              /\ stamps'[i].assigned_at # stamps[i].assigned_at =>
                    UpdateStep /\ last'.status = IN_PROGRESS
              /\ stamps'[i].completed_at # stamps[i].completed_at =>
                    UpdateStep /\ last'.status = COMPLETED
        /\ \A i \in (Len(tasks) + 1)..Len(tasks') :
              /\ stamps'[i].assigned_at = NoTime
              /\ stamps'[i].completed_at = NoTime
      ]_vars

(* A task that was InProgress and was then written Failed: assigned_at is *)
(* the reading of the first write, updated_at that of the second, and      *)
(* completed_at and result are still None.                                 *)
C14_Witness ==
    /\ last.op = "update_task_status" /\ last.status = FAILED
    /\ last.prev.op = "update_task_status" /\ last.prev.status = IN_PROGRESS
    /\ last.prev.task_id = last.task_id
    /\ \E i \in 1..Len(tasks) :
          /\ tasks[i].id = last.task_id
          /\ tasks[i].status = FAILED
          /\ tasks[i].result = None
          /\ stamps[i].assigned_at = now - 2
          /\ stamps[i].updated_at = now - 1
          /\ stamps[i].completed_at = NoTime

(* C20: update_task_status with an id no live task has returns without    *)
(* raising and leaves every live task, its timestamps and every archive    *)
(* entry as they were.                                                     *)
C20_UnknownIdIsNoOp ==
    [][ (UpdateStep /\ \A i \in 1..Len(tasks) : tasks[i].id # last'.task_id) =>
          /\ last'.outcome = "returned"
          /\ tasks' = tasks
          /\ stamps' = stamps
          /\ completed' = completed
      ]_vars

(* update_task_status(Completed, result) was called with an id that no    *)
(* task has, on a store that holds a task and an archive entry.            *)
C20_Witness ==
    /\ last.op = "update_task_status"
    /\ last.task_id = MissingId
    /\ last.status = COMPLETED
    /\ last.result = R1
    /\ Len(tasks) = 1
    /\ DOMAIN completed = {tasks[1].id}
    /\ MissingId \notin DOMAIN completed

----------------------------------------------------------------------------
(* Properties of get_pipeline_status.                                      *)

(* The statuses of the tasks in the store *)
StoreStatuses == {tasks[i].status : i \in 1..Len(tasks)}

(* C15: the overall status is completed exactly when every task joined is *)
(* Completed; otherwise failed if one is Failed; otherwise in_progress if  *)
(* one is InProgress; otherwise pending; and it is one of these four.      *)
C15_OverallStatus ==
    LET overall == get_pipeline_status(tasks, "p1").overall_status
        all_completed == \A st \in StoreStatuses : st = COMPLETED
    IN  /\ overall \in {"completed", "failed", "in_progress", "pending"}
        /\ (overall = "completed") <=> all_completed
        /\ (~all_completed /\ FAILED \in StoreStatuses) => overall = "failed"
        /\ (~all_completed /\ FAILED \notin StoreStatuses
               /\ IN_PROGRESS \in StoreStatuses) => overall = "in_progress"
        /\ (~all_completed /\ FAILED \notin StoreStatuses
               /\ IN_PROGRESS \notin StoreStatuses) => overall = "pending"

(* One task is Failed and another InProgress: the overall status is failed. *)
C15_Witness ==
    /\ Len(tasks) = 2
    /\ tasks[1].status = IN_PROGRESS
    /\ tasks[2].status = FAILED
    /\ get_pipeline_status(tasks, "p1").overall_status = "failed"

(* The tasks of the pipeline, as they are in the store *)
OwnTasks ==
    LET Own(t) == t.id \in PipelineIds(pipeline)
    IN  SelectSeq(tasks, Own)

(* C16: the status reported for a pipeline is the one reported for a      *)
(* store that holds the pipeline's five tasks, in the same statuses, and   *)
(* nothing else.                                                           *)
C16_OwnTasksOnly ==
    pipeline # None =>
        get_pipeline_status(tasks, pipeline.pipeline_id)
            = get_pipeline_status(OwnTasks, pipeline.pipeline_id)

----------------------------------------------------------------------------
(* Properties of get_task_result.                                          *)

(* The ids of the tasks in the live collection *)
LiveIds == {tasks[i].id : i \in 1..Len(tasks)}

(* C11: while the Completed write with result r is the last update applied *)
(* to a live task, get_task_result(id) is r, right after the write and on  *)
(* a TaskQueue constructed later over the same directory.                  *)
C11_ResultDurability ==
    \A id \in DOMAIN promised :
        (promised[id].current /\ id \in LiveIds) =>
            get_task_result(id) = promised[id].result

(* A task was completed with a result and a new TaskQueue was constructed *)
(* afterwards: the result is still returned.                               *)
C11_Witness ==
    /\ last.op = "TaskQueue"
    /\ last.prev.op = "update_task_status"
    /\ last.prev.status = COMPLETED
    /\ last.prev.result = R1
    /\ last.prev.task_id \in LiveIds
    /\ promised[last.prev.task_id].current
    /\ get_task_result(last.prev.task_id) = R1

(* C12: a task completed with result r and then removed from the live     *)
(* collection still has get_task_result(id) = r, from the archive; an id   *)
(* that was never completed has get_task_result(id) = None.                *)
C12_ArchiveFallback ==
    /\ \A id \in DOMAIN promised :
          id \notin LiveIds => get_task_result(id) = promised[id].result
    /\ \A id \in KnownIds \cup {TaskIdPool[i] : i \in 1..Len(TaskIdPool)} :
          id \notin DOMAIN promised => get_task_result(id) = None

(* A task completed with a result has been compacted away and its result *)
(* is returned, while a live task never completed has none.                *)
C12_Witness ==
    /\ last.op = "compaction"
    /\ last.task_id \notin LiveIds
    /\ promised[last.task_id].result = R1
    /\ get_task_result(last.task_id) = R1

----------------------------------------------------------------------------
(* Properties of add_task and of the calls under file errors.              *)

(* C17: no two tasks of the live store or the archive share an id: the id *)
(* add_task returns differs from the id of every task created before.      *)
C17_UniqueIds ==
    \A i, j \in 1..Len(tasks) : i # j => tasks[i].id # tasks[j].id

(* This step is a call of add_task or update_task_status. *)
CallStep == last' # last \/ now' # now \/ updates' # updates

(* C18: when the write of tasks.json fails during add_task, the call      *)
(* raises instead of returning an id, and the task is not in the store.    *)
C18_FailedWriteIsReported ==
    [][ (CallStep /\ last'.op = "add_task" /\ last'.io.write # "ok") =>
          /\ last'.outcome = "raised"
          /\ \A i \in 1..Len(tasks') : tasks'[i].id # last'.task_id
      ]_vars

(* C19: when reading tasks.json fails during add_task or                  *)
(* update_task_status, the tasks persisted before the call are still in    *)
(* the store, unchanged.                                                   *)
C19_FailedReadKeepsCommitted ==
    [][ (CallStep /\ ~last'.io.read) =>
          /\ Len(tasks') >= Len(tasks)
          /\ \A i \in 1..Len(tasks) : tasks'[i] = tasks[i]
      ]_vars

----------------------------------------------------------------------------
(* Properties of get_pending_tasks as a call.                              *)

(* C21: a get_pending_tasks call leaves tasks.json and completed/ as they *)
(* were, and when the call before it was get_pending_tasks for the same    *)
(* worker (nothing was written in between) it returns the same list.       *)
C21_GetPendingIsPure ==
    [][ reads' # reads =>
          /\ tasks' = tasks
          /\ completed' = completed
          /\ (last.op = "get_pending_tasks" /\ last.agent_id = last'.agent_id
                => last'.returned = last.returned)
      ]_vars

(* A worker was asked twice in a row and got a non-empty list, with a     *)
(* Completed task in the archive.                                          *)
C21_Witness ==
    /\ last.op = "get_pending_tasks"
    /\ last.prev = last.agent_id
    /\ last.returned # <<>>
    /\ DOMAIN completed # {}

(* C22: a task one of whose dependencies is missing from the store or not *)
(* Completed still has status Pending.                                     *)
C22_UnmetDependencyStaysPending ==
    \A i \in 1..Len(tasks) :
        ~dependencies_satisfied(tasks[i], tasks) => tasks[i].status = PENDING

----------------------------------------------------------------------------
(* Properties of the driver run: what it returns and what it hands to the *)
(* Workers.                                                                *)

(* C23: when run_content_pipeline has returned, the results map has an    *)
(* entry for a pipeline task exactly when the task has a result in the     *)
(* store; a Completed task's entry is the result its Worker returned, and  *)
(* a task whose Worker raised has no result in the store and no entry.     *)
C23_ResultsMap ==
    pc = "done" =>
        /\ DOMAIN final_results \subseteq PipelineIds(pipeline)
        /\ \A id \in PipelineIds(pipeline) :
             LET t == get_task(id)
             IN  /\ id \in DOMAIN final_results <=> t.result # None
                 /\ t.status = COMPLETED =>
                      /\ id \in DOMAIN final_results
                      /\ final_results[id] = WorkerResult(t.assigned_agent)
                      /\ \E o \in Outcomes : o.id = id /\ o.outcome = "ok"
                 /\ (\E o \in Outcomes : o.id = id /\ o.outcome = "raise") =>
                      /\ t.result = None
                      /\ id \notin DOMAIN final_results

(* A run returned with one pipeline task Completed and another Failed. *)
C23_Witness ==
    /\ pc = "done"
    /\ \E o \in Outcomes : o.id \in PipelineIds(pipeline) /\ o.outcome = "raise"
    /\ \E o \in Outcomes : o.id \in DOMAIN final_results /\ o.outcome = "ok"

(* The task handed to its Worker is the pipeline's task of that stage. *)
Handed(stage) == pc = "call" /\ pipeline # None /\ task.id = pipeline.tasks[stage]

(* The result of the pipeline's task of that stage, as get_task_result    *)
(* gives it                                                                *)
StageResult(stage) == get_task_result(pipeline.tasks[stage])

(* C24: when the writing task is handed to its Worker, the payload's      *)
(* outline is the outline field of the analysis task's result and its      *)
(* research_data is the result of the research task.                       *)
C24_WriterPayload ==
    Handed("writing") =>
        /\ task.payload["outline"] = StageResult("analysis")["outline"]
        /\ task.payload["research_data"] = StageResult("research")

(* C25: the payload handed to a Worker carries the task's own id; the     *)
(* analysis payload's research_data is the research task's result, the     *)
(* seo payload's content is the content field of the writing task's        *)
(* result, and the quality payload's seo_data is the seo task's result and *)
(* its content that result's optimized_content field.                      *)
C25_WiredPayload ==
    pc = "call" =>
        /\ task.payload["id"] = task.id
        /\ Handed("analysis") =>
              task.payload["research_data"] = StageResult("research")
        /\ Handed("seo") =>
              task.payload["content"] = StageResult("writing")["content"]
        /\ Handed("quality") =>
              /\ task.payload["seo_data"] = StageResult("seo")
              /\ task.payload["content"] = StageResult("seo")["optimized_content"]

(* The quality task is with its Worker, the four stages before it having  *)
(* handed their results down.                                              *)
C25_Witness ==
    /\ Handed("quality")
    /\ task.payload["seo_data"] = WorkerResult("agent:seo:main")
    /\ \E o \in Outcomes : o.id = pipeline.tasks["seo"] /\ o.outcome = "ok"

----------------------------------------------------------------------------
(* Order among tasks of equal priority.                                    *)

(* C26: in the list get_pending_tasks returns, of two tasks with the same *)
(* priority the one created earlier (add_task appends, so the one earlier  *)
(* in tasks.json) comes first.                                             *)
C26_FifoAmongEqualPriority ==
    LET pending == get_pending_tasks("agent1")
    IN  \A i, j \in 1..Len(pending) :
            (i < j /\ pending[i].priority = pending[j].priority) =>
                FirstIndex(tasks, pending[i].id) < FirstIndex(tasks, pending[j].id)

(* Three tasks are listed, the first and the last created having the same *)
(* priority and the one created between them a more urgent one, after a    *)
(* status write.                                                           *)
C26_Witness ==
    LET pending == get_pending_tasks("agent1")
    IN  /\ Len(tasks) = 3 /\ Len(pending) = 3
        /\ updates > 0
        /\ tasks[1].priority = tasks[3].priority
        /\ tasks[2].priority < tasks[1].priority
        /\ <<pending[1].id, pending[2].id, pending[3].id>>
              = <<tasks[2].id, tasks[1].id, tasks[3].id>>

----------------------------------------------------------------------------
(* Order and number of dispatches in a driver run.                         *)

(* The tasks of the agent being served that get_pending_tasks returned in *)
(* this pass and that are more urgent than the task with the Worker        *)
MoreUrgentListed ==
    {i \in 1..Len(tasks) :
        /\ tasks[i].assigned_agent = task.assigned_agent
        /\ tasks[i].id \in polled
        /\ tasks[i].priority < task.priority}

(* C27: while a task is with its Worker, every task of the same worker    *)
(* that was listed in this pass with a more urgent priority is already     *)
(* Completed or Failed.                                                    *)
C27_DispatchInPriorityOrder ==
    pc = "call" => \A i \in MoreUrgentListed : Terminal(tasks[i].status)

(* A task is with its Worker after a more urgent task of the same list    *)
(* was finished in the same pass.                                          *)
C27_Witness ==
    /\ pc = "call"
    /\ \E i \in MoreUrgentListed :
          \E o \in Outcomes : o.id = tasks[i].id /\ o.iteration = iteration

(* C28: in a driver run no task is handed to a Worker twice: the Worker   *)
(* calls that ended are for pairwise different tasks, and the task with    *)
(* its Worker is none of them.                                             *)
C28_DispatchedAtMostOnce ==
    /\ \A m, n \in 1..Len(outcomes) : m # n => outcomes[m].id # outcomes[n].id
    /\ pc = "call" => \A o \in Outcomes : o.id # task.id

(* A run went through all its passes after a Worker call had raised in    *)
(* the first, and another call had returned.                               *)
C28_Witness ==
    /\ pc = "done"
    /\ iteration = MAX_ITERATIONS
    /\ \E o \in Outcomes : o.outcome = "raise" /\ o.iteration = 0
    /\ \E o \in Outcomes : o.outcome = "ok"

----------------------------------------------------------------------------
(* Runs that share the store.                                              *)

C30_NoLostUpdate ==
    (\A c \in Callers : callers[c].pc = "idle") =>
        /\ \A id \in issued.created : get_task(id) # None
        /\ \A id \in DOMAIN issued.written :
              /\ get_task(id) # None
              /\ get_task(id).status = issued.written[id]

----------------------------------------------------------------------------
(* Status changes, exits and counts of a driver run.                       *)

(* The status changes a driver run writes *)
DriverTransitions ==
    {<<PENDING, IN_PROGRESS>>, <<IN_PROGRESS, COMPLETED>>, <<IN_PROGRESS, FAILED>>}

(* C31: in a driver run every change of a task's status is Pending to     *)
(* InProgress, InProgress to Completed or InProgress to Failed, a new task *)
(* is Pending, and no task is Assigned or Blocked.                         *)
C31_DriverTransitionsOnly ==
    [][ \A i \in 1..Len(tasks') :
          /\ tasks'[i].status \notin {ASSIGNED, BLOCKED}
          /\ i > Len(tasks) => tasks'[i].status = PENDING
          /\ (i <= Len(tasks) /\ tasks'[i].status # tasks[i].status) =>
                <<tasks[i].status, tasks'[i].status>> \in DriverTransitions
      ]_vars

(* A run in which one Worker call returned and another raised: the three  *)
(* changes have all been written.                                          *)
C31_Witness ==
    /\ \E o \in Outcomes : o.outcome = "ok"
    /\ \E o \in Outcomes : o.outcome = "raise"
    /\ \E i \in 1..Len(tasks) : tasks[i].status = COMPLETED
    /\ \E i \in 1..Len(tasks) : tasks[i].status = FAILED

(* The tasks of the run's pipeline that are neither Completed nor Failed *)
OpenPipelineTasks ==
    {i \in 1..Len(tasks) : /\ tasks[i].id \in PipelineIds(pipeline)
                           /\ ~Terminal(tasks[i].status)}

(* C32: the loop is left before the iteration ceiling only when every     *)
(* task of the pipeline is Completed or Failed; a pass that ends while a   *)
(* pipeline task is still Pending or InProgress is followed by another     *)
(* iteration.                                                               *)
C32_EarlyExitOnlyWhenSettled ==
    [][ /\ (pc' \in {"finish", "done"} /\ iteration' < MAX_ITERATIONS) =>
              OpenPipelineTasks' = {}
        /\ (pc = "endpass" /\ OpenPipelineTasks # {}) =>
              (pc' = "sleep" /\ iteration' = iteration + 1)
      ]_vars

(* The run has left the loop before the ceiling with a Failed pipeline    *)
(* task, after passes that ended with tasks still open.                    *)
C32_Witness ==
    /\ pc = "done"
    /\ iteration > 0
    /\ iteration < MAX_ITERATIONS
    /\ OpenPipelineTasks = {}
    /\ \E i \in 1..Len(tasks) : /\ tasks[i].id \in PipelineIds(pipeline)
                                /\ tasks[i].status = FAILED

(* The positions of the run inside a pass of process_pending_tasks *)
InPass == pc \in {"poll", "dispatch", "call", "endpass"}

(* C33: whatever the Workers do (each call returns or raises),             *)
(* run_content_pipeline terminates, starts a pass only while fewer than    *)
(* MAX_ITERATIONS passes have been counted, and its iteration count stays   *)
(* between 0 and MAX_ITERATIONS.                                            *)
C33_RunTerminates ==
    /\ [](iteration \in 0..MAX_ITERATIONS)
    /\ [](InPass => iteration < MAX_ITERATIONS)
    /\ (pc = "loop" /\ iteration = 0) ~> (pc = "done")

(* A run that returned at the ceiling with a task still Pending beside a  *)
(* Failed one, after Worker calls that returned and calls that raised.     *)
C33_Witness ==
    /\ pc = "done"
    /\ iteration = MAX_ITERATIONS
    /\ \E o \in Outcomes : o.outcome = "raise"
    /\ \E o \in Outcomes : o.outcome = "ok"
    /\ \E i \in 1..Len(tasks) : tasks[i].status = PENDING
    /\ \E i \in 1..Len(tasks) : tasks[i].status = FAILED

(* The worker ids the driver dispatches to: the registered agents other   *)
(* than the coordinator                                                    *)
DispatchedAgents == {EngineAgents[k] : k \in 1..Len(EngineAgents)} \ {COORDINATOR}

(* C34: a task assigned to the coordinator or to a worker id that is not  *)
(* registered is never dispatched: it is Pending in every state of every   *)
(* run, is never the task in execution and has no Worker outcome.          *)
C34_UndispatchedStayPending ==
    \A i \in 1..Len(tasks) :
        tasks[i].assigned_agent \notin DispatchedAgents =>
            /\ tasks[i].status = PENDING
            /\ pc \in {"dispatch", "call"} =>
                  \A n \in 1..Len(pending_tasks) : pending_tasks[n].id # tasks[i].id
            /\ pc = "call" => task.id # tasks[i].id
            /\ \A o \in Outcomes : o.id # tasks[i].id

(* A finished run that left a coordinator task without dependencies       *)
(* Pending while it completed pipeline tasks.                              *)
C34_Witness ==
    /\ pc = "done"
    /\ \E o \in Outcomes : o.outcome = "ok"
    /\ \E i \in 1..Len(tasks) : /\ tasks[i].assigned_agent = COORDINATOR
                                /\ tasks[i].dependencies = {}
                                /\ tasks[i].status = PENDING

----------------------------------------------------------------------------
(* The archive of completed tasks.                                         *)

(* C35: the archive is append-only: an archive entry, once written, is    *)
(* neither changed nor removed by a later store operation, and every       *)
(* archive entry has status Completed.                                     *)
C35_ArchiveAppendOnly ==
    [][ /\ \A id \in DOMAIN completed :
              id \in DOMAIN completed' /\ completed'[id] = completed[id]
        /\ \A id \in DOMAIN completed' : completed'[id].status = COMPLETED
      ]_vars

----------------------------------------------------------------------------
(* The tasks the pipeline builder creates.                                 *)

(* C36: the step that builds the pipeline gives research, analysis and    *)
(* quality priority High and writing and seo priority Medium, and seeds    *)
(* each later task's payload with the id of the task before it while the   *)
(* upstream data fields of the payload are empty.                          *)
C36_BuilderPrioritiesAndSeeds ==
    [][ (pc = "idle" /\ pc' = "loop") =>
          LET ids == pipeline'.tasks
              built(k) == task_in(tasks', ids[k])
          IN  /\ built("research").priority = HIGH
              /\ built("analysis").priority = HIGH
              /\ built("writing").priority = MEDIUM
              /\ built("seo").priority = MEDIUM
              /\ built("quality").priority = HIGH
              /\ built("analysis").payload.research_task_id = ids["research"]
              /\ built("analysis").payload.research_data = EmptyDict
              /\ built("writing").payload.analysis_task_id = ids["analysis"]
              /\ built("writing").payload.outline = EmptyDict
              /\ built("writing").payload.research_data = EmptyDict
              /\ built("seo").payload.writing_task_id = ids["writing"]
              /\ built("seo").payload.content = ""
              /\ built("quality").payload.seo_task_id = ids["seo"]
              /\ built("quality").payload.content = ""
              /\ built("quality").payload.seo_data = EmptyDict
      ]_vars

(* A pipeline has just been built behind a task of Critical priority: the *)
(* five tasks are in the store with their seeds, none of them started.     *)
C36_Witness ==
    /\ pc = "loop"
    /\ iteration = 0
    /\ Len(tasks) = 6
    /\ tasks[1].priority = CRITICAL
    /\ get_task(pipeline.tasks.quality).priority = HIGH
    /\ get_task(pipeline.tasks.quality).payload.seo_task_id = pipeline.tasks.seo
    /\ get_task(pipeline.tasks.writing).priority = MEDIUM
    /\ \A k \in StageKeys : get_task(pipeline.tasks[k]).status = PENDING

(* C37: whenever a live task is Completed, the archive holds an entry for *)
(* its id with the live task's result, after any sequence of add_task and  *)
(* update_task_status calls whose storage writes succeed.                  *)
C37_CompletedIsArchived ==
    \A i \in 1..Len(tasks) :
        tasks[i].status = COMPLETED =>
            /\ tasks[i].id \in DOMAIN completed
            /\ completed[tasks[i].id].result = tasks[i].result

(* Two status writes: one task is Completed with a result and archived    *)
(* with it, beside a task that is not Completed.                           *)
C37_Witness ==
    /\ updates = 2
    /\ Len(tasks) = 2
    /\ \E i \in 1..Len(tasks) :
          /\ tasks[i].status = COMPLETED
          /\ tasks[i].result = R1
          /\ tasks[i].id \in DOMAIN completed
          /\ completed[tasks[i].id].result = R1
    /\ \E i \in 1..Len(tasks) : tasks[i].status # COMPLETED

----------------------------------------------------------------------------
(* The task in execution and the count of a pass.                          *)

(* C38: with one driver loop on the store, at most one task is InProgress *)
(* in any state, and an InProgress task is the task whose Worker call is   *)
(* being awaited.                                                          *)
C38_OnlyExecutingIsInProgress ==
    /\ Cardinality({i \in 1..Len(tasks) : tasks[i].status = IN_PROGRESS}) <= 1
    /\ \A i \in 1..Len(tasks) :
          tasks[i].status = IN_PROGRESS => (pc = "call" /\ task.id = tasks[i].id)

(* A Worker call is awaited after an earlier call returned and another    *)
(* raised: exactly the awaited task is InProgress.                         *)
C38_Witness ==
    /\ pc = "call"
    /\ get_task(task.id).status = IN_PROGRESS
    /\ \E o \in Outcomes : o.outcome = "ok"
    /\ \E o \in Outcomes : o.outcome = "raise"
    /\ \E i \in 1..Len(tasks) : tasks[i].status = PENDING

(* The Worker calls of the current pass that returned *)
CompletedInPass == {o \in Outcomes : o.iteration = iteration /\ o.outcome = "ok"}

(* C39: a dispatch whose Worker raised is not counted: at the end of a    *)
(* pass tasks_processed is the number of tasks marked Completed in it, and *)
(* a pass with no Completed task, failed dispatches included, goes through *)
(* the exit check: the loop is left if the pipeline is settled and goes on *)
(* otherwise; a pass with a Completed task goes on.                        *)
C39_FailuresAreNotProgress ==
    [][ pc = "endpass" =>
          /\ tasks_processed = Cardinality(CompletedInPass)
          /\ pc' = IF CompletedInPass = {} /\ PipelineSettled THEN "finish" ELSE "sleep"
      ]_vars

(* A pass has ended whose only dispatch raised. *)
C39_Witness ==
    /\ pc = "endpass"
    /\ RaisedInPass # {}
    /\ CompletedInPass = {}
    /\ tasks_processed = 0

----------------------------------------------------------------------------
(* What a status write and the wiring step leave alone.                    *)

(* The fields of a stored task that are fixed at creation *)
CreationFields(t) ==
    [ id |-> t.id, title |-> t.title, assigned_agent |-> t.assigned_agent,
      priority |-> t.priority, dependencies |-> t.dependencies,
      payload |-> t.payload ]

(* The id of the task the driver's step is about *)
Targeted == IF pc = "dispatch" THEN Head(pending_tasks).id ELSE task.id

(* C40: a step of the driver that dispatches a task (status write and     *)
(* wiring) or records a Worker's outcome changes the status and result of  *)
(* the targeted task only: every other stored task, the order of the       *)
(* collection and the targeted task's id, title, assigned worker,          *)
(* priority, dependencies and stored payload stay as they were.            *)
C40_StatusWriteFrame ==
    [][ (pc \in {"dispatch", "call"} /\ pc' # pc) =>
          /\ Len(tasks') = Len(tasks)
          /\ \A i \in 1..Len(tasks) :
                /\ CreationFields(tasks'[i]) = CreationFields(tasks[i])
                /\ tasks[i].id # Targeted => tasks'[i] = tasks[i]
      ]_vars

(* The writer's call is awaited with upstream data wired into the payload *)
(* it was handed, while the stored payload is the one of creation.         *)
C40_Witness ==
    /\ pc = "call"
    /\ task.id = pipeline.tasks.writing
    /\ task.payload.outline # EmptyDict
    /\ get_task(task.id).payload.outline = EmptyDict
    /\ get_task(task.id).payload.id = ""
    /\ get_task(task.id).status = IN_PROGRESS
    /\ get_task(pipeline.tasks.analysis).status = COMPLETED

====
